---- MODULE Spec2Model ----
(***************************************************************************)
(* Verification model of the uncertainty calculator's two engines:        *)
(*   suncal/risk.py        - Risk, PFAR_MC, process_risk                   *)
(*   psluncert/curvefit.py - CurveFit (fit function set-up, the four      *)
(*                           calc_* methods, configuration save/load)      *)
(*                                                                         *)
(* Numbers.  Python floats are modelled as exact rationals <<n, d>> in    *)
(* lowest terms with d >= 0.  The three IEEE specials are the rationals   *)
(* with d = 0: <<1,0>> = +inf, <<-1,0>> = -inf, <<0,0>> = nan.  Rounding   *)
(* error is not modelled.                                                  *)
(***************************************************************************)
EXTENDS Integers, Sequences, FiniteSets, TLC

VARIABLES
    \* ---- Risk object (risk.py:573-580) ----
    risk,         \* the Risk: [name, description, procdist, testdist,
                  \*   speclimits = <<LL, UL>> as stored,
                  \*   guardband = <<GBL, GBU>> as stored]
    \* ---- observation of the last call on the Risk ----
    op,           \* name of the last method that ran
    ret,          \* what it returned: Ok(value), or Raise when it raised
    args,         \* the arguments of the last call, Plain when not recorded
    prev,         \* the Risk before the last method ran
    steps,        \* number of state-changing methods run so far
    \* ---- PFAR_MC (risk.py:523-566) ----
    mc,           \* inputs and the running FA/FR counts of one PFAR_MC call
    \* ---- CurveFit object (curvefit.py:85-98) ----
    fit,          \* the CurveFit fields, or None before construction
    fit2,         \* the CurveFit rebuilt by from_config, or None
    \* ---- CurveFitParam object (curvefit.py:740-751) ----
    param,        \* the CurveFitParam on fit, or NoParam before construction
    \* ---- from_configfile (curvefit.py:689-715, risk.py:938-964) ----
    load          \* the document given and the outcome of loading it

vars == <<risk, op, ret, args, prev, steps, mc, fit, fit2, param, load>>

riskVars == <<risk, op, ret, args, prev, steps>>

None == "None"

\* the value of an attribute that holds Python's None where a distribution may be
NoDist == [name |-> None, loc |-> <<0, 0>>, scale |-> <<0, 0>>]
IsNone(d) == d.name = None

\* Python None where a float may stand (no float has denominator -1)
NoNum == <<0, -1>>

(***************************************************************************)
(* Rational arithmetic with IEEE specials                                  *)
(***************************************************************************)
Abs(i) == IF i < 0 THEN -i ELSE i

Sgn(i) == IF i > 0 THEN 1 ELSE IF i < 0 THEN -1 ELSE 0

RECURSIVE GCD(_, _)
GCD(a, b) == IF b = 0 THEN a ELSE GCD(b, a % b)

\* n/d in lowest terms, d >= 0; d = 0 gives +inf, -inf or nan by the sign of n
Rat(n, d) ==
    IF d = 0 THEN <<Sgn(n), 0>>
    ELSE LET g == GCD(Abs(n), Abs(d))
             s == Sgn(d)
         IN  <<(s * n) \div g, (s * d) \div g>>

RI(i) == <<i, 1>>
NaN    == <<0, 0>>
PInf   == <<1, 0>>
Zero   == <<0, 1>>
One    == <<1, 1>>

IsNaN(a)    == a = NaN
IsFinite(a) == a[2] # 0

RNeg(a) == <<-a[1], a[2]>>
RAdd(a, b) ==
    IF a[2] = 0 /\ b[2] = 0
    THEN (IF a = b THEN a ELSE NaN)          \* inf + inf = inf, inf - inf = nan
    ELSE Rat(a[1] * b[2] + b[1] * a[2], a[2] * b[2])
RSub(a, b) == RAdd(a, RNeg(b))
RMul(a, b) == Rat(a[1] * b[1], a[2] * b[2])
\* numpy float division: x/0 = +-inf, 0/0 = nan, x/inf = 0
RDiv(a, b) ==
    IF b[1] < 0 THEN Rat(-(a[1] * b[2]), a[2] * (-b[1]))
    ELSE Rat(a[1] * b[2], a[2] * b[1])

\* IEEE comparisons: every ordered comparison with nan is false, nan != nan
REq(a, b) == ~IsNaN(a) /\ ~IsNaN(b) /\ a = b
RNe(a, b) == ~REq(a, b)
RLt(a, b) ==
    /\ ~IsNaN(a) /\ ~IsNaN(b) /\ a # b
    /\ IF a[2] = 0 /\ b[2] = 0 THEN a[1] < b[1] ELSE a[1] * b[2] < b[1] * a[2]
RLe(a, b) == ~IsNaN(a) /\ ~IsNaN(b) /\ (a = b \/ RLt(a, b))
RGt(a, b) == RLt(b, a)
RGe(a, b) == RLe(b, a)
RMin(a, b) == IF RLt(b, a) THEN b ELSE a     \* Python min(a, b)
RMax(a, b) == IF RGt(b, a) THEN b ELSE a     \* Python max(a, b)
RAbs(a) == <<Abs(a[1]), a[2]>>

(***************************************************************************)
(* Distributions (scipy.stats frozen distributions, as risk.py uses them)  *)
(*                                                                         *)
(* A distribution is [name, loc, scale].  risk.py reads only dist.name,    *)
(* median(), mean(), std() and cdf().  Two families are modelled:          *)
(*   "norm"    - loc is the mean/median, scale the standard deviation      *)
(*   "uniform" - a symmetric bounded family; here loc is its median and    *)
(*               scale its standard deviation                              *)
(* scipy returns nan from every method of a frozen distribution whose      *)
(* scale is not > 0.                                                       *)
(***************************************************************************)
Dist(name, loc, scale) == [name |-> name, loc |-> loc, scale |-> scale]

ArgCheck(d) == RGt(d.scale, Zero)

\* Standard normal cdf on z >= 0: linear between the knots z = 0,1,...,PhiSat,
\* value PhiKnot(k) at z = k, and exactly 1 from PhiSat on.  (In double
\* precision norm.cdf(z) is exactly 1.0 from z = 8.3 on; the table is a
\* coarser, strictly increasing stand-in with the same shape.)
PhiSat == 5
PhiKnot(k) == CASE k = 0 -> <<1, 2>> [] k = 1 -> <<21, 25>>
                [] k = 2 -> <<39, 40>> [] k = 3 -> <<199, 200>>
                [] k = 4 -> <<799, 800>> [] OTHER -> <<1, 1>>

PhiPos(z) ==
    IF z[2] = 0 \/ RGe(z, RI(PhiSat)) THEN One
    ELSE LET k == z[1] \div z[2]
             f == RSub(z, RI(k))
         IN  RAdd(PhiKnot(k), RMul(f, RSub(PhiKnot(k + 1), PhiKnot(k))))

\* stats.norm.cdf of a standardised value
Phi(z) ==
    IF IsNaN(z) THEN NaN
    ELSE IF z[1] < 0 THEN RSub(One, PhiPos(RNeg(z)))
    ELSE PhiPos(z)

\* the knot interval that holds q, for 1/2 <= q < 1
PpfSeg(q) == CHOOSE k \in 0..(PhiSat - 1) :
                 RLe(PhiKnot(k), q) /\ RLt(q, PhiKnot(k + 1))

PpfPos(q) ==
    LET k == PpfSeg(q)
    IN  RAdd(RI(k), RDiv(RSub(q, PhiKnot(k)), RSub(PhiKnot(k + 1), PhiKnot(k))))

\* stats.norm.ppf: the inverse of Phi; ppf(1) = inf, ppf(0) = -inf, nan outside [0,1]
Ppf(q) ==
    IF IsNaN(q) \/ RLt(q, Zero) \/ RGt(q, One) THEN NaN
    ELSE IF q = One THEN PInf
    ELSE IF q = Zero THEN RNeg(PInf)
    ELSE IF RGe(q, <<1, 2>>) THEN PpfPos(q)
    ELSE RNeg(PpfPos(RSub(One, q)))

\* cdf of the standardised symmetric bounded family: linear on |z| < 7/4
UnifCdf(z) ==
    IF IsNaN(z) THEN NaN
    ELSE RMax(Zero, RMin(One, RAdd(<<1, 2>>, RMul(z, <<2, 7>>))))

\* dist.cdf(x)
Cdf(d, x) ==
    IF ~ArgCheck(d) THEN NaN
    ELSE LET z == RDiv(RSub(x, d.loc), d.scale)
         IN  IF d.name = "norm" THEN Phi(z) ELSE UnifCdf(z)

\* dist.median() = loc + scale * ppf(1/2), and ppf(1/2) = 0 in both families
Median(d) == IF ~ArgCheck(d) THEN NaN ELSE RAdd(d.loc, RMul(d.scale, Zero))

\* dist.mean()
Mean(d) == Median(d)

\* dist.std()
Std(d) == IF ~ArgCheck(d) THEN NaN ELSE d.scale

(***************************************************************************)
(* risk.py: process_risk and the Risk object                               *)
(* A method that raises returns Raise; a method that returns a value v     *)
(* returns Ok(v).                                                          *)
(***************************************************************************)
Raise == [ok |-> FALSE, val |-> <<0, 0>>]
Ok(v) == [ok |-> TRUE, val |-> v]

\* What a call is observed to return.  A float is returned as Ok(v); a bool,
\* a string or None, and a structured value are kept under a field of their
\* own, so that two observations are always comparable.
Typed(field, res) ==
    IF res.ok THEN [k \in {"ok", field} |-> IF k = "ok" THEN TRUE ELSE res.val]
    ELSE Raise
Bool(res) == Typed("bool", res)
Str(res) == Typed("str", res)
Rec(res) == Typed("rec", res)

\* the arguments of a call that are not recorded
Plain == [plain |-> TRUE]

\* Risk.__init__(name); customdists.normal(s) is the normal of median 0 and
\* standard deviation s.  The starting process distribution is the one that
\* gives 95% in-tolerance probability at limits -1, 1: Phi(2) = 0.975 in
\* the table above, so its standard deviation is 1/2.
NewRisk(name) ==
    [name |-> name, description |-> "",
     procdist |-> Dist("norm", Zero, Rat(1, 2)),
     testdist |-> Dist("norm", Zero, Rat(1, 8)),
     speclimits |-> <<RI(-1), RI(1)>>,
     guardband |-> <<Zero, Zero>>,
     out |-> "RiskOutput of __init__"]

\* Risk.calculate: a new RiskOutput wrapping the Risk
calculate(r) == [r EXCEPT !.out = "RiskOutput of calculate"]

\* Risk.get_output
get_output(r) == r.out

\* process_risk(dist, LL, UL) -> [cpk, total, lower, upper]
\* the normal branch of cpk: min((UL-mean)/(3 std), (mean-LL)/(3 std))
CpkNormal(LL, UL, mean, sd3) ==
    RMin(RDiv(RSub(UL, mean), sd3), RDiv(RSub(mean, LL), sd3))

\* the other branch: max(0, min(|ppf(lower)|/3, |ppf(upper)|/3)), negated
\* when a tail risk exceeds 1/2
CpkGeneral(risk_lower, risk_upper, cpku0) ==
    IF RGt(risk_lower, <<1, 2>>) \/ RGt(risk_upper, <<1, 2>>)
    THEN RNeg(cpku0) ELSE cpku0

\* process_risk after LL, UL = min, max and the two tail risks are computed
ProcessRiskOf(dist, LL, UL, risk_lower, risk_upper) ==
    [cpk |-> IF dist.name = "norm"
             THEN CpkNormal(LL, UL, Mean(dist), RMul(RI(3), Std(dist)))
             ELSE CpkGeneral(risk_lower, risk_upper,
                             RMax(Zero, RMin(RDiv(RAbs(Ppf(risk_lower)), RI(3)),
                                             RDiv(RAbs(Ppf(risk_upper)), RI(3))))),
     total |-> RAdd(risk_lower, risk_upper), lower |-> risk_lower,
     upper |-> risk_upper]

ProcessRiskIn(dist, LL, UL) ==
    ProcessRiskOf(dist, LL, UL, Cdf(dist, LL), RSub(One, Cdf(dist, UL)))

process_risk(dist, LLin, ULin) ==
    ProcessRiskIn(dist, RMin(LLin, ULin), RMax(LLin, ULin))

\* (speclimits[1] - speclimits[0])/2 as get_tur, get_gbf and set_gbf compute it
HalfRange(r) == RDiv(RSub(r.speclimits[2], r.speclimits[1]), RI(2))

\* Risk.cpk
cpk(r) == IF IsNone(r.procdist) THEN Raise
          ELSE Ok(process_risk(r.procdist, r.speclimits[1], r.speclimits[2]))

\* Risk.proc_risk
proc_risk(r) == IF IsNone(r.procdist) THEN Raise
                ELSE Ok(process_risk(r.procdist, r.speclimits[1], r.speclimits[2]).total)

\* Risk.get_tur
get_tur(r) ==
    IF IsNone(r.testdist) THEN Raise
    ELSE LET rng == HalfRange(r)
             TL == RMul(Std(r.testdist), RI(2))
         IN  Ok(RDiv(rng, TL))

\* Risk.get_itp
OneMinus(res) == IF ~res.ok THEN Raise ELSE Ok(RSub(One, res.val))
get_itp(r) == OneMinus(proc_risk(r))

\* Risk.get_gbf; the division is of Python floats: ZeroDivisionError when rng = 0
get_gbf(r) ==
    LET gb == RSub(r.guardband[2],
                   RDiv(RSub(r.guardband[2], r.guardband[1]), RI(2)))
        rng == HalfRange(r)
    IN  IF rng = Zero THEN Raise ELSE Ok(RSub(One, RDiv(gb, rng)))

\* is_simple without its guard-band test (a variant the model is checked
\* against: C6 must tell it from is_simple)
is_simple_noGuardband(r) ==
    IF IsNone(r.procdist) \/ IsNone(r.testdist) THEN FALSE
    ELSE IF RNe(Median(r.procdist), Zero) THEN FALSE
    ELSE IF r.procdist.name # "norm" \/ r.testdist.name # "norm" THEN FALSE
    ELSE IF RNe(r.speclimits[2], RI(1)) \/ RNe(r.speclimits[1], RI(-1)) THEN FALSE
    ELSE TRUE

\* Risk.is_simple
is_simple(r) ==
    IF IsNone(r.procdist) \/ IsNone(r.testdist) THEN FALSE
    ELSE IF RNe(Median(r.procdist), Zero) THEN FALSE
    ELSE IF r.procdist.name # "norm" \/ r.testdist.name # "norm" THEN FALSE
    ELSE IF RNe(r.speclimits[2], RI(1)) \/ RNe(r.speclimits[1], RI(-1)) THEN FALSE
    ELSE IF RNe(r.guardband[2], r.guardband[1]) THEN FALSE
    ELSE TRUE

\* Risk.set_gbf
\* set_gbf with gb = rng * (1 + gbf)
set_gbf_plus(r, gbf) ==
    LET rng == HalfRange(r)
        gb == RMul(rng, RAdd(One, gbf))
    IN  [r EXCEPT !.guardband = <<gb, gb>>]

set_gbf(r, gbf) ==
    LET rng == HalfRange(r)
        gb == RMul(rng, RSub(One, gbf))
    IN  [r EXCEPT !.guardband = <<gb, gb>>]

\* Risk.to_simple -> Ok(the Risk afterwards), or Raise with the Risk untouched
\* to_simple once tur, itp, median and gbf have been read: the limits become
\* (-1, 1), the distributions normal with sigma0 = UL/ppf((1+itp)/2) and
\* sigmat = 1/tur/2, and the guard band is set from gbf
Simplified(r, tur, itp, median, gbf) ==
    IF ~gbf.ok THEN Raise
    ELSE Ok(set_gbf([r EXCEPT !.speclimits = <<RI(-1), RI(1)>>,
                              !.procdist = Dist("norm", Zero,
                                  RDiv(RI(1), Ppf(RDiv(RAdd(One, itp), RI(2))))),
                              !.testdist = Dist("norm", median,
                                  RDiv(RDiv(One, tur), RI(2)))],
                    gbf.val))

to_simple(r) ==
    IF is_simple(r) THEN Ok(r)
    ELSE Simplified(r,
                    IF ~IsNone(r.testdist) THEN get_tur(r).val ELSE RI(4),
                    IF ~IsNone(r.procdist) THEN get_itp(r).val ELSE <<19, 20>>,
                    IF ~IsNone(r.testdist) THEN Median(r.testdist) ELSE Zero,
                    get_gbf(r))

\* Risk.set_itp
\* s is what to_simple() gave
SetItpOn(s, itp) ==
    IF ~s.ok THEN Raise
    ELSE Ok([s.val EXCEPT !.procdist =
                Dist("norm", Zero, RDiv(s.val.speclimits[2],
                                        Ppf(RDiv(RAdd(One, itp), RI(2)))))])
set_itp(r, itp) == SetItpOn(to_simple(r), itp)

\* Risk.set_tur
\* s is what to_simple() gave
SetTurOn(s, tur) ==
    IF ~s.ok THEN Raise
    ELSE Ok([s.val EXCEPT !.testdist =
                Dist("norm", Median(s.val.testdist), RDiv(RDiv(One, tur), RI(2)))])
set_tur(r, tur) == SetTurOn(to_simple(r), tur)

\* Risk.set_testmedian
set_testmedian(r, median) ==
    IF IsNone(r.testdist) THEN Raise
    ELSE Ok([r EXCEPT !.testdist = Dist("norm", median, Std(r.testdist))])

\* Risk.test_risk -> [PFx, accept]
\* PFx from accept and the cdf at the two limits
TestPFx(accept, cdfLL, cdfUL) ==
    [PFx |-> IF accept THEN RAdd(cdfLL, RSub(One, cdfUL))
             ELSE RAbs(RSub(cdfLL, cdfUL)),
     accept |-> accept]

\* test_risk after LL, UL = min, max; both ends use guardband[0]
TestRiskIn(r, med, LL, UL) ==
    TestPFx(RGe(med, RAdd(LL, r.guardband[1])) /\ RLe(med, RSub(UL, r.guardband[1])),
            Cdf(r.testdist, LL), Cdf(r.testdist, UL))

test_risk(r) ==
    IF IsNone(r.testdist) THEN Raise
    ELSE Ok(TestRiskIn(r, Median(r.testdist),
                       RMin(r.speclimits[1], r.speclimits[2]),
                       RMax(r.speclimits[1], r.speclimits[2])))

\* The call Risk.PFA / Risk.PFR makes: which integral, with which arguments.
\* The integrals themselves are scipy quadratures and stay symbolic.
Call(fn, itp, tur, gbf, pd, td, sl, gb, approx) ==
    [fn |-> fn, itp |-> itp, tur |-> tur, gbf |-> gbf, procdist |-> pd,
     testdist |-> td, LL |-> sl[1], UL |-> sl[2], GBL |-> gb[1], GBU |-> gb[2],
     approx |-> approx]

Dispatch(r, approx, normfn, genfn) ==
    IF is_simple(r)
    THEN Ok(Call(normfn, get_itp(r).val, get_tur(r).val, get_gbf(r).val,
                 NoDist, NoDist, <<NaN, NaN>>, <<NaN, NaN>>, FALSE))
    ELSE IF IsNone(r.procdist) \/ IsNone(r.testdist) THEN Raise
    ELSE Ok(Call(genfn, NaN, NaN, NaN, r.procdist, r.testdist,
                 r.speclimits, r.guardband, approx))

\* Risk.PFA(approx)
RiskPFA(r, approx) == Dispatch(r, approx, "PFA_norm", "PFA")

\* Risk.PFR(approx)
RiskPFR(r, approx) == Dispatch(r, approx, "PFR_norm", "PFR")

\* dict.get(key, default)
Get(d, key, default) == IF key \in DOMAIN d THEN d[key] ELSE default

\* customdists.get_config(dist): the family name and the parameters
dist_get_config(d) ==
    [k \in {"dist", "loc", "scale"} |->
        CASE k = "dist" -> d.name [] k = "loc" -> d.loc [] OTHER -> d.scale]

\* customdists.from_config(cfg): the frozen distribution of that family
dist_from_config(c) == Dist(c["dist"], Get(c, "loc", Zero), Get(c, "scale", One))

\* Risk.get_config
get_config(r) ==
    LET keys == {"mode", "name", "desc", "GBL", "GBU", "LL", "UL"}
                \cup (IF ~IsNone(r.procdist) THEN {"distproc"} ELSE {})
                \cup (IF ~IsNone(r.testdist) THEN {"disttest"} ELSE {})
    IN  [k \in keys |->
            CASE k = "mode" -> "risk"
              [] k = "name" -> r.name
              [] k = "desc" -> r.description
              [] k = "distproc" -> dist_get_config(r.procdist)
              [] k = "disttest" -> dist_get_config(r.testdist)
              [] k = "GBL" -> r.guardband[1]
              [] k = "GBU" -> r.guardband[2]
              [] k = "LL" -> r.speclimits[1]
              [] OTHER -> r.speclimits[2]]

\* from_config reading GBL for both guard bands (a variant the model is
\* checked against: C7 must tell it from from_config)
from_config_oneGuardband(config) ==
    LET r0 == NewRisk(Get(config, "name", "risk"))
        r1 == [r0 EXCEPT !.description = Get(config, "desc", "")]
        r2 == [r1 EXCEPT !.speclimits = <<Get(config, "LL", Zero), Get(config, "UL", Zero)>>]
        r3 == [r2 EXCEPT !.guardband = <<Get(config, "GBL", Zero), Get(config, "GBL", Zero)>>]
        r4 == [r3 EXCEPT !.procdist = IF "distproc" \in DOMAIN config
                                      THEN dist_from_config(config["distproc"])
                                      ELSE NoDist]
    IN  [r4 EXCEPT !.testdist = IF "disttest" \in DOMAIN config
                                THEN dist_from_config(config["disttest"])
                                ELSE NoDist]

\* Risk.from_config
from_config(config) ==
    LET r0 == NewRisk(Get(config, "name", "risk"))
        r1 == [r0 EXCEPT !.description = Get(config, "desc", "")]
        r2 == [r1 EXCEPT !.speclimits = <<Get(config, "LL", Zero), Get(config, "UL", Zero)>>]
        r3 == [r2 EXCEPT !.guardband = <<Get(config, "GBL", Zero), Get(config, "GBU", Zero)>>]
        r4 == [r3 EXCEPT !.procdist = IF "distproc" \in DOMAIN config
                                      THEN dist_from_config(config["distproc"])
                                      ELSE NoDist]
    IN  [r4 EXCEPT !.testdist = IF "disttest" \in DOMAIN config
                                THEN dist_from_config(config["disttest"])
                                ELSE NoDist]

(***************************************************************************)
(* risk.py: guardband_norm, guardband and Risk.calc_guardband              *)
(* kwargs is a function from the keyword names given to their values; a    *)
(* keyword given as Python None has the value None.  The numerical parts   *)
(* (exp, log, sqrt, and the root finders fsolve and brentq over the PFA    *)
(* integral) are not computed: num is the value they deliver.              *)
(***************************************************************************)
\* guardband_norm with the test on 'test' and 'rp10' made strict (a variant
\* the model is checked against: C11 must tell it from guardband_norm)
guardband_norm_strict(method, TUR, kwargs, num) ==
    IF method \in {"dobbert", "rss"} THEN Ok(num)
    ELSE IF method = "test"
    THEN Ok(IF RLt(TUR, RI(4)) THEN RSub(One, RDiv(One, TUR)) ELSE One)
    ELSE IF method = "rp10"
    THEN Ok(IF RLt(TUR, RI(4)) THEN RSub(<<5, 4>>, RDiv(One, TUR)) ELSE One)
    ELSE IF method \in {"pfa", "4:1"}
    THEN IF Get(kwargs, "itp", <<19, 20>>) = NoNum THEN Raise
         ELSE IF method = "pfa" /\ Get(kwargs, "pfa", <<1, 125>>) = NoNum THEN Raise
         ELSE Ok(num)
    ELSE Raise

\* guardband_norm(method, TUR, **kwargs) -> Ok(GB), or Raise
\* kwargs.get(key, default) is the default only when the key is absent; with
\* a target or an itp of None the first evaluation of the solved function
\* subtracts None from a float and raises TypeError
guardband_norm(method, TUR, kwargs, num) ==
    IF method \in {"dobbert", "rss"} THEN Ok(num)
    ELSE IF method = "test"
    THEN Ok(IF RLe(TUR, RI(4)) THEN RSub(One, RDiv(One, TUR)) ELSE One)
    ELSE IF method = "rp10"
    THEN Ok(IF RLe(TUR, RI(4)) THEN RSub(<<5, 4>>, RDiv(One, TUR)) ELSE One)
    ELSE IF method \in {"pfa", "4:1"}
    THEN IF Get(kwargs, "itp", <<19, 20>>) = NoNum THEN Raise
         ELSE IF method = "pfa" /\ Get(kwargs, "pfa", <<1, 125>>) = NoNum THEN Raise
         ELSE Ok(num)
    ELSE Raise

\* guardband(dist_proc, dist_test, LL, UL, target_PFA, approx) -> Ok(gb), or
\* Raise; brentq's ValueError and a root search that did not converge give
\* nan, any other exception of the solved function propagates
guardband(dist_proc, dist_test, LL, UL, target_PFA, num) ==
    IF IsNone(dist_proc) \/ IsNone(dist_test) THEN Raise
    ELSE IF target_PFA = NoNum THEN Raise
    ELSE Ok(num)

\* Risk.calc_guardband(method, pfa) -> Ok(the Risk afterwards), or Raise
\* the first branch once get_tur() and get_itp() have been evaluated
CalcGuardbandNorm(r, method, pfa, tur, itp, num) ==
    IF ~tur.ok \/ ~itp.ok THEN Raise
    ELSE LET gbf == guardband_norm(method, tur.val,
                                   [k \in {"pfa", "itp"} |->
                                       IF k = "pfa" THEN pfa ELSE itp.val], num)
         IN  IF gbf.ok THEN Ok(set_gbf(r, gbf.val)) ELSE Raise

\* the second branch once guardband() has returned
CalcGuardbandGeneral(r, gb) ==
    IF gb.ok THEN Ok([r EXCEPT !.guardband = <<gb.val, gb.val>>]) ELSE Raise

calc_guardband(r, method, pfa, num) ==
    IF is_simple(r) \/ method # "pfa"
    THEN CalcGuardbandNorm(r, method, pfa, get_tur(r), get_itp(r), num)
    ELSE CalcGuardbandGeneral(r, guardband(r.procdist, r.testdist, r.speclimits[1],
                                           r.speclimits[2], pfa, num))

(***************************************************************************)
(* The Risk machine: one action per method                                 *)
(***************************************************************************)
MaxSteps == 3

DistChoices == {Dist("norm", Zero, Rat(1, 2)), Dist("norm", Rat(9, 10), Rat(1, 8)),
                Dist("uniform", Zero, Rat(1, 4)), NoDist}
LimitChoices == {<<RI(-1), RI(1)>>, <<RI(1), RI(-1)>>, <<RI(-2), RI(2)>>, <<Zero, Zero>>}
GuardChoices == {<<Zero, Zero>>, <<Rat(1, 10), Rat(1, 10)>>, <<Rat(1, 5), Rat(1, 10)>>}
GbfChoices == {One, Rat(4, 5), Rat(3, 2)}
ItpChoices == {Rat(19, 20)}
TurChoices == {RI(4), RI(2)}
MedianChoices == {Zero, Rat(9, 10), Rat(3, 2)}
GbMethods == {"test", "pfa", "bogus"}
PfaChoices == {NoNum, <<1, 100>>}
KwargsChoices == {[k \in K |-> v] : K \in {{}, {"pfa"}}, v \in PfaChoices}
\* what the numerical part delivers: a guard band, or nan
NumChoices == {<<4, 5>>, NaN}

\* no PFAR_MC call in progress
McIdle == [phase |-> "idle", LL |-> 0, UL |-> 0, GBL |-> 0, GBU |-> 0, N |-> 0,
           proc |-> <<>>, test |-> <<>>, FA |-> <<0, 1>>, FR |-> <<0, 1>>]

IdleOthers == UNCHANGED <<mc, fit, fit2, param, load>>

\* a method that assigns fields: res is Ok(the Risk afterwards) or Raise
MutateWith(name, a, res) ==
    /\ steps < MaxSteps
    /\ op' = name
    /\ args' = a
    /\ prev' = risk
    /\ steps' = steps + 1
    /\ risk' = IF res.ok THEN res.val ELSE risk
    /\ ret' = IF res.ok THEN Str(Ok(None)) ELSE Raise
    /\ IdleOthers

Mutate(name, res) == MutateWith(name, Plain, res)

\* a method that only returns a value
ReadWith(name, a, res) ==
    /\ op' = name
    /\ args' = a
    /\ ret' = res
    /\ prev' = risk
    /\ UNCHANGED <<risk, steps>>
    /\ IdleOthers

Read(name, res) == ReadWith(name, Plain, res)

SetTestdist == \E d \in DistChoices : Mutate("set_testdist", Ok([risk EXCEPT !.testdist = d]))
SetProcdist == \E d \in DistChoices : Mutate("set_procdist", Ok([risk EXCEPT !.procdist = d]))
SetSpeclimits == \E l \in LimitChoices : Mutate("set_speclimits", Ok([risk EXCEPT !.speclimits = l]))
SetGuardband == \E g \in GuardChoices : Mutate("set_guardband", Ok([risk EXCEPT !.guardband = g]))
SetGbf == \E g \in GbfChoices : MutateWith("set_gbf", [gbf |-> g], Ok(set_gbf(risk, g)))
SetItp == \E p \in ItpChoices : Mutate("set_itp", set_itp(risk, p))
SetTur == \E t \in TurChoices : MutateWith("set_tur", [tur |-> t], set_tur(risk, t))
SetTestmedian ==
    \E m \in MedianChoices :
        MutateWith("set_testmedian", [median |-> m], set_testmedian(risk, m))
Calculate == Mutate("calculate", Ok(calculate(risk)))
ToSimple == Mutate("to_simple", to_simple(risk))
\* save and load back: Risk.from_config(risk.get_config())
Reload == Mutate("from_config", Ok(from_config(get_config(risk))))

CalcGuardband ==
    \E method \in GbMethods, pfa \in PfaChoices, num \in NumChoices :
        MutateWith("calc_guardband", [method |-> method, pfa |-> pfa],
                   calc_guardband(risk, method, pfa, num))

IsSimple == Read("is_simple", Bool(Ok(is_simple(risk))))
GetOutput == Read("get_output", Str(Ok(get_output(risk))))
GetTur == Read("get_tur", get_tur(risk))
GetItp == Read("get_itp", get_itp(risk))
GetGbf == Read("get_gbf", get_gbf(risk))
Cpk == Read("cpk", Rec(cpk(risk)))
TestRisk == Read("test_risk", Rec(test_risk(risk)))
CallPFA == Read("PFA", Rec(RiskPFA(risk, TRUE)))
CallPFR == Read("PFR", Rec(RiskPFR(risk, TRUE)))

RiskInit ==
    /\ risk = NewRisk("risk")
    /\ op = "init"
    /\ ret = Str(Ok(None))
    /\ args = Plain
    /\ prev = NewRisk("risk")
    /\ steps = 0

OthersInit ==
    /\ mc = McIdle
    /\ fit = None
    /\ fit2 = None
    /\ param = None
    /\ load = None

Init == RiskInit /\ OthersInit

Next ==
    \/ SetTestdist \/ SetProcdist \/ SetSpeclimits \/ SetGuardband \/ SetGbf
    \/ SetItp \/ SetTur \/ SetTestmedian \/ ToSimple \/ Reload
    \/ IsSimple \/ GetTur \/ GetItp \/ GetGbf \/ Cpk \/ TestRisk
    \/ CallPFA \/ CallPFR \/ CalcGuardband \/ Calculate \/ GetOutput

Spec == Init /\ [][Next]_vars

(***************************************************************************)
(* Properties of the Risk object                                           *)
(***************************************************************************)
NormLL(r) == RMin(r.speclimits[1], r.speclimits[2])
NormUL(r) == RMax(r.speclimits[1], r.speclimits[2])

\* C1: test_risk() reports accept = True exactly when the test median m
\* satisfies LL+GBL <= m <= UL-GBU (LL, UL normalised by min/max), for every
\* guard band, symmetric or not.
C1_TestRiskAccept ==
    (op = "test_risk" /\ ret.ok) =>
        (ret.rec.accept <=>
            /\ RGe(Median(risk.testdist), RAdd(NormLL(risk), risk.guardband[1]))
            /\ RLe(Median(risk.testdist), RSub(NormUL(risk), risk.guardband[2])))

BothSet(r) == ~IsNone(r.procdist) /\ ~IsNone(r.testdist)

\* C5: for a Risk with both distributions set and LL != UL, after to_simple()
\* the Risk is simple and get_tur, get_itp, get_gbf and the test median are
\* what they were before; if it was simple already nothing changes.
C5_ToSimplePreserves ==
    (op = "to_simple" /\ BothSet(prev) /\ prev.speclimits[1] # prev.speclimits[2]) =>
        /\ ret.ok
        /\ is_simple(risk)
        /\ get_tur(risk) = get_tur(prev)
        /\ get_itp(risk) = get_itp(prev)
        /\ get_gbf(risk) = get_gbf(prev)
        /\ Median(risk.testdist) = Median(prev.testdist)
        /\ (is_simple(prev) => risk = prev)

\* C6: is_simple() is true iff the process distribution is set, normal and
\* of median 0, the test distribution is set and normal, the limits are
\* exactly (-1, 1) and GBL = GBU; after any sequence of setters and loads.
C6_IsSimpleIff ==
    (op = "is_simple") =>
        (ret.bool <=>
            /\ BothSet(risk)
            /\ risk.procdist.name = "norm"
            /\ REq(Median(risk.procdist), Zero)
            /\ risk.testdist.name = "norm"
            /\ risk.speclimits = <<RI(-1), RI(1)>>
            /\ REq(risk.guardband[1], risk.guardband[2]))

\* C6 witness: is_simple() answered True on a Risk that setters had changed
C6_Witness ==
    op = "is_simple" /\ ret.bool /\ steps >= 2 /\ risk # NewRisk("risk")

\* C7: Risk.from_config(r.get_config()) has r's spec limits, guard band,
\* distributions (present or absent, and their configuration), is_simple()
\* result and PFA()/PFR() dispatch.
C7_RiskConfigRoundTrip ==
    (op = "from_config") =>
        /\ risk.speclimits = prev.speclimits
        /\ risk.guardband = prev.guardband
        /\ IsNone(risk.procdist) = IsNone(prev.procdist)
        /\ IsNone(risk.testdist) = IsNone(prev.testdist)
        /\ dist_get_config(risk.procdist) = dist_get_config(prev.procdist)
        /\ dist_get_config(risk.testdist) = dist_get_config(prev.testdist)
        /\ is_simple(risk) = is_simple(prev)
        /\ RiskPFA(risk, TRUE) = RiskPFA(prev, TRUE)
        /\ RiskPFR(risk, TRUE) = RiskPFR(prev, TRUE)

\* C7 witness: a Risk with limits (-2, 2) and a non-zero guard band was
\* saved and loaded back
C7_Witness ==
    /\ op = "from_config"
    /\ prev.speclimits = <<RI(-2), RI(2)>>
    /\ prev.guardband # <<Zero, Zero>>

Swapped(r) == [r EXCEPT !.speclimits = <<r.speclimits[2], r.speclimits[1]>>]

\* C10: every Risk method that reads the stored limits uses them normalised
\* to LL < UL, so it gives the same result for the stored pair (a, b) as for
\* (b, a); and none of these reads changes the stored pair.
C10_LimitsNormalized ==
    /\ (op = "get_tur" => ret = get_tur(Swapped(risk)))
    /\ (op = "get_gbf" => ret = get_gbf(Swapped(risk)))
    /\ (op = "cpk" => ret = Rec(cpk(Swapped(risk))))
    /\ (op = "test_risk" => ret = Rec(test_risk(Swapped(risk))))
    /\ (op \in {"PFA", "PFR"} /\ ret.ok /\ ret.rec.fn \in {"PFA", "PFR"}
            => RLe(ret.rec.LL, ret.rec.UL))
    /\ (op = "set_gbf" =>
            \E g \in GbfChoices :
                /\ risk = set_gbf(prev, g)
                /\ risk.guardband = set_gbf(Swapped(prev), g).guardband)
    /\ (op \in {"get_tur", "get_gbf", "cpk", "test_risk", "PFA", "PFR", "set_gbf"}
            => risk.speclimits = prev.speclimits)

\* C15 (Risk): get_output() returns None on a Risk for which calculate() has
\* never been called, and otherwise the report object of the most recent
\* calculate().  
C15_GetOutput ==
    (op = "get_output") =>
        ret = Str(Ok(IF risk.out = "RiskOutput of calculate"
                     THEN "RiskOutput of calculate" ELSE None))

\* C30: for a Risk with both distributions set, the accept/reject verdict of
\* test_risk() is the same before and after to_simple(), and before and
\* after a set_tur or set_itp that keeps the TUR or the ITP it had.
C30_VerdictKept ==
    (/\ \/ op = "to_simple"
        \/ op = "set_tur" /\ get_tur(prev) = Ok(args.tur)
        \/ op = "set_itp" /\ \E p \in ItpChoices : get_itp(prev) = Ok(p)
     /\ ~IsNone(prev.procdist) /\ ~IsNone(prev.testdist)) =>
        /\ ret.ok
        /\ test_risk(risk).ok
        /\ test_risk(risk).val.accept = test_risk(prev).val.accept

\* C21: get_gbf is the inverse of set_gbf: with spec limits LL # UL, after
\* set_gbf(g) the guard band is symmetric, GBL = GBU = half-range * (1 - g),
\* get_gbf() returns g, and the spec limits and both distributions are as
\* before.
C21_GbfInverse ==
    (op = "set_gbf" /\ prev.speclimits[1] # prev.speclimits[2]) =>
        /\ ret.ok
        /\ risk.guardband[1] = risk.guardband[2]
        /\ risk.guardband[1] = RMul(HalfRange(prev), RSub(One, args.gbf))
        /\ get_gbf(risk) = Ok(args.gbf)
        /\ risk.speclimits = prev.speclimits
        /\ risk.procdist = prev.procdist
        /\ risk.testdist = prev.testdist

\* C21 witness: set_gbf(0.8) on limits (-2, 2) left the guard band (0.4, 0.4)
C21_Witness ==
    /\ op = "set_gbf" /\ args.gbf = Rat(4, 5)
    /\ prev.speclimits = <<RI(-2), RI(2)>>
    /\ risk.guardband = <<Rat(2, 5), Rat(2, 5)>>

\* C19: for a Risk with a test distribution and tur > 0, after set_tur(tur)
\* the Risk is simple, get_tur() is tur and the test median is unchanged.
C19_SetTur ==
    (op = "set_tur" /\ ~IsNone(prev.testdist) /\ RGt(args.tur, Zero)) =>
        /\ ret.ok
        /\ is_simple(risk)
        /\ get_tur(risk) = Ok(args.tur)
        /\ Median(risk.testdist) = Median(prev.testdist)

\* C20: set_testmedian(v) changes only the location of the test
\* distribution: the median becomes v; the family, the standard deviation
\* and get_tur() stay; process distribution, limits and guard band stay.
C20_SetTestmedian ==
    (op = "set_testmedian" /\ ~IsNone(prev.testdist)) =>
        /\ ret.ok
        /\ Median(risk.testdist) = args.median
        /\ risk.testdist.name = prev.testdist.name
        /\ Std(risk.testdist) = Std(prev.testdist)
        /\ get_tur(risk) = get_tur(prev)
        /\ risk.procdist = prev.procdist
        /\ risk.speclimits = prev.speclimits
        /\ risk.guardband = prev.guardband

(***************************************************************************)
(* guardband_norm called directly: the arguments are drawn at the start    *)
(* and one step applies the function to them                               *)
(***************************************************************************)
MaxTur == 6
AllGbMethods == {"dobbert", "rss", "test", "rp10", "pfa", "4:1", "bogus"}
\* TUR > 0 in halves up to MaxTur: both sides of 4, and 4 itself
GbTurChoices == {Rat(i, 2) : i \in 1..(2 * MaxTur)}

GbInit ==
    /\ RiskInit
    /\ OthersInit

GbDraw ==
    /\ op = "init"
    /\ \E method \in AllGbMethods, TUR \in GbTurChoices, kwargs \in KwargsChoices :
           /\ op' = "guardband_norm args"
           /\ args' = [method |-> method, TUR |-> TUR, kwargs |-> kwargs]
    /\ UNCHANGED <<risk, ret, prev, steps>>
    /\ IdleOthers

GuardbandNorm ==
    /\ op = "guardband_norm args"
    /\ \E num \in NumChoices :
           ret' = guardband_norm(args.method, args.TUR, args.kwargs, num)
    /\ op' = "guardband_norm"
    /\ UNCHANGED <<risk, args, prev, steps>>
    /\ IdleOthers

NextGb == GbDraw \/ GuardbandNorm
SpecGb == GbInit /\ [][NextGb]_vars

C12_CalcGuardbandDefaultPfa ==
    (op = "calc_guardband" /\ args.method = "pfa" /\ args.pfa = NoNum /\ is_simple(prev)) =>
        /\ ret.ok
        /\ \E num \in NumChoices : risk = set_gbf(prev, num)

(***************************************************************************)
(* risk.py: PFAR_MC                                                        *)
(* The N process samples and the N test samples are random draws; the      *)
(* model draws each pair from a grid that has points on both sides of and  *)
(* on every limit.  Values here are plain integers.                        *)
(*   mc = [phase, LL, UL, GBL, GBU, N, proc, test, FA, FR]                 *)
(***************************************************************************)
MaxN == 2
MaxSample == 3
SampleVals == (0 - MaxSample)..MaxSample
McLimits == {<<-2, 2>>, <<-1, 1>>}
McGuards == {<<0, 0>>, <<1, 1>>, <<1, 0>>}

\* the pair (p, t) is counted in FA (risk.py:560)
IsFA(p, t, LL, UL, GBL, GBU) ==
    (p > UL /\ t < UL - GBU) \/ (p < LL /\ t > LL + GBL)

\* the pair (p, t) is counted in FR (risk.py:561)
IsFR(p, t, LL, UL, GBL, GBU) ==
    (p < UL /\ t > UL - GBU) \/ (p > LL /\ t < LL + GBL)

\* np.count_nonzero over the sample pairs
CountFA(m) == Cardinality({i \in 1..m.N :
                  IsFA(m.proc[i], m.test[i], m.LL, m.UL, m.GBL, m.GBU)})
CountFR(m) == Cardinality({i \in 1..m.N :
                  IsFR(m.proc[i], m.test[i], m.LL, m.UL, m.GBL, m.GBU)})

McInit ==
    \E l \in McLimits, g \in McGuards, n \in 1..MaxN :
        /\ l[1] + g[1] <= l[2] - g[2]
        /\ mc = [McIdle EXCEPT !.phase = "sampling", !.LL = l[1], !.UL = l[2],
                               !.GBL = g[1], !.GBU = g[2], !.N = n]

\* one draw of dist_proc.rvs and of dist_test.dist.rvs (risk.py:554-558)
McDraw ==
    /\ mc.phase = "sampling"
    /\ Len(mc.proc) < mc.N
    /\ \E p \in SampleVals, t \in SampleVals :
           mc' = [mc EXCEPT !.proc = Append(@, p), !.test = Append(@, t)]
    /\ UNCHANGED <<riskVars, fit, fit2, param, load>>

\* the counting and the return (risk.py:560-566)
McReturn ==
    /\ mc.phase = "sampling"
    /\ Len(mc.proc) = mc.N
    /\ mc' = [mc EXCEPT !.phase = "done",
                        !.FA = Rat(CountFA(mc), mc.N),
                        !.FR = Rat(CountFR(mc), mc.N)]
    /\ UNCHANGED <<riskVars, fit, fit2, param, load>>

InitMC == RiskInit /\ McInit /\ fit = None /\ fit2 = None /\ param = None /\ load = None
NextMC == McDraw \/ McReturn
SpecMC == InitMC /\ [][NextMC]_vars

\* C28: no sample pair is counted both as a false accept and as a false
\* reject, so for LL < UL and guard bands with LL + GBL <= UL - GBU the
\* returned values satisfy 0 <= PFA, 0 <= PFR and PFA + PFR <= 1.
C28_PfarDisjoint ==
    mc.phase = "done" =>
        /\ \A i \in 1..mc.N :
              ~(/\ IsFA(mc.proc[i], mc.test[i], mc.LL, mc.UL, mc.GBL, mc.GBU)
                /\ IsFR(mc.proc[i], mc.test[i], mc.LL, mc.UL, mc.GBL, mc.GBU))
        /\ RLe(Zero, mc.FA) /\ RLe(Zero, mc.FR)
        /\ RLe(RAdd(mc.FA, mc.FR), One)

\* C2: a pair counts as a false accept only when the process sample is
\* outside a spec limit and the test sample is on the accept side of the
\* corresponding guard-banded limit, and as a false reject only when the
\* process sample is inside both limits and the test sample is on the
\* reject side of a guard-banded limit; PFA, PFR are the counts over N.
\* Draws with a process sample exactly on a limit are left out: they have
\* probability zero and the claim does not say which side they fall on.
C2_PfarCounts ==
    (mc.phase = "done" /\ \A i \in 1..mc.N : mc.proc[i] \notin {mc.LL, mc.UL}) =>
        /\ mc.FA = Rat(Cardinality({i \in 1..mc.N :
                        \/ mc.proc[i] > mc.UL /\ mc.test[i] < mc.UL - mc.GBU
                        \/ mc.proc[i] < mc.LL /\ mc.test[i] > mc.LL + mc.GBL}), mc.N)
        /\ mc.FR = Rat(Cardinality({i \in 1..mc.N :
                        /\ mc.LL < mc.proc[i] /\ mc.proc[i] < mc.UL
                        /\ \/ mc.test[i] > mc.UL - mc.GBU
                           \/ mc.test[i] < mc.LL + mc.GBL}), mc.N)

(***************************************************************************)
(* curvefit.py: CurveFit                                                   *)
(*                                                                         *)
(* Python None is <<>> where an array, a p0 vector or a bounds pair may    *)
(* stand (none of them can be empty otherwise), "None" for odr and method, *)
(* and NoOrder for polyorder.  The numerical solvers are scipy's and stay  *)
(* symbolic: a fit is the record of which solver was called with which     *)
(* arguments, plus the number of coefficients it returns.                  *)
(***************************************************************************)
NoArr == <<>>
NoOrder == 0 - 1
Methods == {"lsq", "gum", "mc", "mcmc"}

AllZero(a) == \A i \in 1..Len(a) : a[i] = 0
Ones(n) == [i \in 1..n |-> 1]

\* uarray.Array(x, y, ux, uy): a scalar uncertainty is broadcast to every point
Array(x, y, ux, uy) ==
    [x |-> x, y |-> y, ux |-> ux, uy |-> uy, uy_estimate |-> NoArr, nsamples |-> 0]
Broadcast(v, n) == [i \in 1..n |-> v]
has_ux(arr) == ~AllZero(arr.ux)
has_uy(arr) == ~AllZero(arr.uy)

Letter(i) == CASE i = 0 -> "a" [] i = 1 -> "b" [] i = 2 -> "c" [] i = 3 -> "d"
               [] i = 4 -> "e" [] i = 5 -> "f" [] i = 6 -> "g" [] i = 7 -> "h"
               [] i = 8 -> "i" [] i = 9 -> "j" [] i = 10 -> "k" [] i = 11 -> "l"
               [] OTHER -> "m"

\* a Python function: the names of its parameters after x, and whether the
\* last of them is a *args catch-all
Func(id, params, varargs) == [id |-> id, params |-> params, varargs |-> varargs]
NoFunc == Func(None, <<>>, FALSE)

\* the free-form expression of the model, "b*x + a*exp(c)", and what
\* CurveFit.check_expr finds in an expression string
ExprText == "b*x + a*exp(c)"
check_expr(text) ==
    IF text = ExprText THEN Ok(Func(text, <<"a", "b", "c">>, FALSE))
    ELSE Raise       \* no "x" in it, or no parameter

\* inspect.signature(func).parameters.keys()[1:]
SignatureNames(f) == f.params

\* CurveFit.set_fitfunc.  f is the CurveFit before the call; the result is
\* Ok(the CurveFit afterwards) or, when the method raises, the CurveFit as
\* the raise leaves it, under "val" with ok = FALSE.
NamedFunc(func, polyorder) ==
    CASE func = "line" -> Func("line", <<"b", "a">>, FALSE)
      [] func = "exp" -> Func("exp", <<"a", "b", "c">>, FALSE)
      [] func = "decay" -> Func("decay", <<"a", "b">>, FALSE)
      [] func = "decay2" -> Func("decay2", <<"a", "b">>, FALSE)
      [] func = "log" -> Func("log", <<"a", "b", "c">>, FALSE)
      [] func = "logistic" -> Func("logistic", <<"a", "b", "c", "d">>, FALSE)
      [] func = "quad" \/ (func = "poly" /\ polyorder = 2) ->
            Func("quad", <<"a", "b", "c">>, FALSE)
      [] func = "cubic" \/ (func = "poly" /\ polyorder = 3) ->
            Func("cubic", <<"a", "b", "c", "d">>, FALSE)
      [] OTHER -> Func("poly1d", <<"p">>, TRUE)

NamedFuncs == {"line", "exp", "decay", "decay2", "log", "logistic", "quad", "cubic"}

\* the strategy closure stored in self.fitfunc: what it captured
Strategy(solver, method, bounds, odr, abssigma) ==
    [solver |-> solver, method |-> method, bounds |-> bounds, odr |-> odr,
     absolute_sigma |-> abssigma]

\* the uniform priors set_fitfunc installs from the bounds (one per bound pair)
BoundPriors(bounds) == [i \in 1..Len(bounds) |-> [kind |-> "uniform", low |-> bounds[i][1],
                                                   high |-> bounds[i][2]]]

set_fitfunc(f, func, polyorder, method, bounds, odr, p0) ==
    LET f1 == [f EXCEPT !.fitname = IF func = "callable" THEN "callable" ELSE func,
                        !.polyorder = polyorder, !.odr = odr, !.bounds = bounds,
                        !.p0 = p0]
        isPolyBranch == func = "poly" /\ polyorder # 2 /\ polyorder # 3
        isExpr == func \notin NamedFuncs \cup {"poly", "callable"}
        chk == check_expr(func)
        \* the branch bodies: self.expr, the local func, and p0 for 'poly'
        badOrder == isPolyBranch /\ (polyorder < 1 \/ polyorder > 12)
        fn == IF func = "callable" THEN Func("callable", <<"a", "b">>, FALSE)
              ELSE IF isExpr THEN chk.val
              ELSE NamedFunc(func, polyorder)
        varnames == [i \in 1..(polyorder + 1) |-> Letter(i - 1)]
        f2 == [f1 EXCEPT !.expr = IF func = "callable" THEN f.expr
                                  ELSE IF isPolyBranch THEN "poly" ELSE fn.id,
                         !.p0 = IF isPolyBranch /\ p0 = NoArr
                                THEN Ones(polyorder + 1) ELSE p0]
        pnames == IF f2.fitname = "poly" /\ polyorder > 3 THEN varnames
                  ELSE SignatureNames(fn)
        f3 == [f2 EXCEPT !.func = fn, !.pnames = pnames, !.numparams = Len(pnames),
                         !.expr = IF f2.fitname = "callable" THEN "f(x, ...)" ELSE @]
        \* set_mcmc_priors asserts len(priors) == len(self.pnames)
        badPriors == bounds # NoArr /\ Len(bounds) # Len(pnames)
        f4 == IF bounds = NoArr THEN f3 ELSE [f3 EXCEPT !.priors = BoundPriors(bounds)]
        solver == IF f4.fitname = "line" /\ odr # "True" THEN "genlinefit" ELSE "genfit"
        f5 == [f4 EXCEPT !.fitfunc = Strategy(solver, method, bounds, odr,
                                              f.absolute_sigma)]
    IN  IF func = "poly" /\ polyorder = NoOrder THEN [ok |-> FALSE, val |-> f1]
        ELSE IF badOrder THEN [ok |-> FALSE, val |-> f1]
        ELSE IF isExpr /\ ~chk.ok THEN [ok |-> FALSE, val |-> f1]
        ELSE IF badPriors THEN [ok |-> FALSE, val |-> f3]
        ELSE [ok |-> TRUE, val |-> f5]

\* the composite report CurveFitOutput(outputs, self, xdates); before the
\* first calculate() self.out is None
NoReport == [report |-> None, outputs |-> <<>>, xdates |-> FALSE]
Report(outputs, xdates) == [report |-> "CurveFitOutput", outputs |-> outputs,
                            xdates |-> xdates]

\* CurveFit.__init__ up to the call of set_fitfunc
FitBlank(arr, name, desc, seed, xdates, abssigma) ==
    [made |-> TRUE, seed |-> seed, samples |-> 5000, outputs |-> <<>>, arr |-> arr,
     name |-> name, desc |-> desc, out |-> NoReport, xname |-> "x", yname |-> "y",
     xdates |-> xdates, absolute_sigma |-> abssigma,
     fitname |-> None, polyorder |-> NoOrder, odr |-> None, bounds |-> NoArr,
     p0 |-> NoArr, expr |-> None, func |-> NoFunc, pnames |-> <<>>, numparams |-> 0,
     priors |-> <<>>, samplecoeffs |-> <<0, 0>>, mcmccoeffs |-> <<0, 0>>,
     fitfunc |-> Strategy(None, None, NoArr, None, TRUE)]

\* no CurveFit (construction has not happened, or it raised)
NoFit == [FitBlank(Array(<<>>, <<>>, <<>>, <<>>), None, None, None, FALSE, TRUE)
            EXCEPT !.made = FALSE]

\* CurveFit(arr, func, name, desc, polyorder, p0, method, bounds, odr, seed,
\*          xdates, absolute_sigma)
NewCurveFit(arr, func, name, desc, polyorder, p0, method, bounds, odr, seed, xdates, abssigma) ==
    set_fitfunc(FitBlank(arr, name, desc, seed, xdates, abssigma),
                func, polyorder, method, bounds, odr, p0)

(***************************************************************************)
(* The solvers (curvefit.py:1114-1225, scipy.optimize.curve_fit, scipy.odr)*)
(* A solve is [ok, solver, func, p0, bounds, sx, sy, x, y, abs, K]: the    *)
(* solver called, its arguments, and the number K of coefficients it       *)
(* returns; ok = FALSE when the solver raises.                             *)
(***************************************************************************)
Solve(ok, solver, fn, p0, bounds, sx, sy, x, y, abs, K) ==
    [ok |-> ok, solver |-> solver, func |-> fn.id, p0 |-> p0, bounds |-> bounds,
     sx |-> sx, sy |-> sy, x |-> x, y |-> y, absolute_sigma |-> abs, K |-> K]

\* calling fn(x, *p) with K coefficients is a TypeError unless fn takes K
Accepts(fn, K) == fn.varargs \/ Len(fn.params) = K

\* scipy.optimize.curve_fit(func, x, y, p0, sigma, absolute_sigma, bounds):
\* without p0 the number of coefficients is read from the signature
\* (ValueError for *args); bounds must have one entry per coefficient; the
\* unbounded solve needs at least as many points as coefficients.
curve_fit(fn, x, y, p0, sigma, abs, bounds) ==
    LET K == IF p0 = NoArr THEN Len(fn.params) ELSE Len(p0)
        ok == /\ ~(p0 = NoArr /\ fn.varargs)
              /\ Accepts(fn, K)
              /\ (bounds = NoArr \/ Len(bounds) = K)
              /\ (bounds # NoArr \/ Len(x) >= K)
    IN  Solve(ok, "curve_fit", fn, p0, bounds, NoArr, sigma, x, y, abs, K)

\* odrfit: scipy.odr needs beta0
odrfit(fn, x, y, ux, uy, p0, abs) ==
    LET sx == IF ux # NoArr /\ AllZero(ux) THEN NoArr ELSE ux
        sy == IF uy # NoArr /\ AllZero(uy) THEN NoArr ELSE uy
        K == Len(p0)
    IN  Solve(p0 # NoArr /\ Accepts(fn, K), "odrfit", fn, p0, NoArr, sx, sy, x, y, abs, K)

\* genfit that never passes sigma
genfit_unweighted(fn, x, y, ux, uy, p0, method, bounds, odr, abs) ==
    IF odr = "True" \/ ~(ux = NoArr \/ AllZero(ux))
    THEN odrfit(fn, x, y, ux, uy, p0, abs)
    ELSE curve_fit(fn, x, y, p0, NoArr, FALSE, bounds)

\* genfit
genfit(fn, x, y, ux, uy, p0, method, bounds, odr, abs) ==
    IF odr = "True" \/ ~(ux = NoArr \/ AllZero(ux))
    THEN odrfit(fn, x, y, ux, uy, p0, abs)
    ELSE IF uy = NoArr \/ AllZero(uy)
         THEN curve_fit(fn, x, y, p0, NoArr, FALSE, bounds)
         ELSE curve_fit(fn, x, y, p0, uy, abs, bounds)

\* genlinefit: linefit and linefitYork return [slope, intercept]
genlinefit(x, y, ux, uy, abs) ==
    IF ux = NoArr \/ AllZero(ux)
    THEN Solve(TRUE, "linefit", Func("line", <<"b", "a">>, FALSE), NoArr, NoArr,
               NoArr, uy, x, y, abs, 2)
    ELSE Solve(TRUE, "linefitYork", Func("line", <<"b", "a">>, FALSE), NoArr, NoArr,
               ux, uy, x, y, abs, 2)

\* self.fitfunc(x, y, ux, uy): method, bounds, odr and absolute_sigma are the
\* values captured when set_fitfunc built the closure; self.func and self.p0
\* are read when it is called
fitfunc(f, x, y, ux, uy) ==
    IF f.fitfunc.solver = "genlinefit"
    THEN genlinefit(x, y, ux, uy, f.fitfunc.absolute_sigma)
    ELSE genfit(f.func, x, y, ux, uy, f.p0, f.fitfunc.method, f.fitfunc.bounds,
                f.fitfunc.odr, f.fitfunc.absolute_sigma)

(***************************************************************************)
(* CurveFit methods.  Each returns [ok, val, out]: val is the CurveFit      *)
(* afterwards (as the raise leaves it when ok = FALSE), out the record      *)
(* returned.                                                                *)
(***************************************************************************)
NoRecord == [method |-> None, ncoef |-> 0, degf |-> 0, nrows |-> 0]
Res(ok, f, out) == [ok |-> ok, val |-> f, out |-> out]

\* outputs[key] = rec
Put(outputs, key, rec) ==
    [k \in DOMAIN outputs \cup {key} |-> IF k = key THEN rec ELSE outputs[k]]

NPoints(f) == Len(f.arr.x)

\* the residual-based uy of estimate_uy: one positive value at every point
\* (written 9, a value no input array holds)
estimate_uy(f) ==
    LET s == fitfunc(f, f.arr.x, f.arr.y, NoArr, NoArr)
    IN  IF s.ok THEN Ok(Broadcast(9, NPoints(f))) ELSE Raise

\* CurveFit.run_uyestimate; e is what estimate_uy gives
UyEstimated(f, e) ==
    IF e.ok THEN Res(TRUE, [f EXCEPT !.arr.uy_estimate = e.val], NoRecord)
    ELSE Res(FALSE, f, NoRecord)

run_uyestimate(f) ==
    IF f.arr.uy_estimate = NoArr /\ ~has_ux(f.arr) /\ ~has_uy(f.arr)
    THEN UyEstimated(f, estimate_uy(f))
    ELSE Res(TRUE, f, NoRecord)

\* the record a method stores in outputs[method] and returns
Fitted(f, method, s, ncoef, nrows) ==
    [method |-> method, coeffs |-> s, ncoef |-> ncoef, degf |-> NPoints(f) - ncoef,
     pnames |-> f.pnames, nrows |-> nrows, func |-> f.func.id]

\* what rec.u_conf(x), the confidence band stored in a record of the
\* CurveFit f, evaluates when it is called: the lsq and gum bands captured
\* func=self.func; the mc band calls self.func(x, *self.samplecoeffs[i]) and
\* the mcmc band self.func(x, *v[i, :]) with v=self.mcmccoeffs captured, so
\* both read self.func, and the mc band self.samplecoeffs, at the call
u_conf(f, rec) ==
    IF rec.method = "mc" THEN [func |-> f.func.id, rows |-> f.samplecoeffs]
    ELSE IF rec.method = "mcmc" THEN [func |-> f.func.id, rows |-> <<rec.nrows, rec.ncoef>>]
    ELSE [func |-> rec.func, rows |-> <<0, 0>>]

\* the priors calc_MCMC uses: lambda x: 1 for every name of pnames when
\* self.priors is unset, self.priors otherwise
DefaultPrior == [kind |-> "const", low |-> 0, high |-> 0]
mcmc_priors(f) ==
    IF f.priors = <<>> THEN [i \in 1..Len(f.pnames) |-> DefaultPrior] ELSE f.priors

\* CurveFit.set_mcmc_priors
set_mcmc_priors(f, priors) ==
    IF Len(priors) # Len(f.pnames) THEN Res(FALSE, f, NoRecord)
    ELSE Res(TRUE, [f EXCEPT !.priors = priors], NoRecord)

Stored(f, rec) == Res(TRUE, [f EXCEPT !.outputs = Put(@, rec.method, rec)], rec)

\* CurveFit.calc_LSQ; s is what self.fitfunc returned
LSQFitted(f, s) ==
    IF ~s.ok THEN Res(FALSE, f, NoRecord)
    ELSE Stored(f, Fitted(f, "lsq", s, s.K, 0))

calc_LSQ(f) ==
    LSQFitted(f, fitfunc(f, f.arr.x, f.arr.y, f.arr.ux,
                         IF ~has_uy(f.arr) THEN Broadcast(0, NPoints(f)) ELSE f.arr.uy))

\* CurveFit.sample
sample(f, samples) == [f EXCEPT !.arr.nsamples = samples]

\* CurveFit.calc_MC: each of the `samples` refits is stored in a row of
\* samplecoeffs, which has numparams columns; the coefficients reported are
\* the column means.  f3 is the CurveFit holding the sampled arrays, s a
\* refit of one sample.
MCFitted(f3, samples, s) ==
    IF samples > 0 /\ (~s.ok \/ s.K # f3.numparams) THEN Res(FALSE, f3, NoRecord)
    ELSE Stored(f3, Fitted(f3, "mc", s, f3.numparams, samples))

MCSampled(f2, samples) ==
    MCFitted([f2 EXCEPT !.samplecoeffs = <<samples, f2.numparams>>], samples,
             fitfunc(f2, f2.arr.x, f2.arr.y, NoArr, NoArr))

MCEstimated(u, samples) ==
    IF ~u.ok THEN Res(FALSE, u.val, NoRecord)
    ELSE MCSampled(IF u.val.arr.nsamples # samples THEN sample(u.val, samples) ELSE u.val,
                   samples)

calc_MC(f, samples) == MCEstimated(run_uyestimate(f), samples)

\* CurveFit.calc_GUM
GUMFitted(f1, s) ==
    IF ~s.ok THEN Res(FALSE, f1, NoRecord)
    ELSE Stored(f1, Fitted(f1, "gum", s, s.K, 0))

GUMEstimated(u) ==
    IF ~u.ok THEN Res(FALSE, u.val, NoRecord)
    ELSE GUMFitted(u.val, fitfunc(u.val, u.val.arr.x, u.val.arr.y, NoArr, NoArr))

calc_GUM(f) == GUMEstimated(run_uyestimate(f))

\* int(burnin * samples), burnin = bn/bd >= 0
BurninRows(samples, bn, bd) == (bn * samples) \div bd

\* the number of rows of a[start:] for an array of n rows, start >= 0
Sliced(n, start) == IF start >= n THEN 0 ELSE n - start

\* CurveFit.calc_MCMC: the chain starts at the least-squares coefficients p;
\* priors[pidx] is read for every pidx < len(p); every sweep stores p in a
\* row of mcmccoeffs, which has numparams columns.  startOk says whether the
\* data give finite initial sigmas and a positive prior at p.  f1 is the
\* CurveFit after run_uyestimate, s the initial fit.
MCMCFitted(f1, samples, burn, startOk, s) ==
    IF ~s.ok \/ ~startOk
       \/ (IF f1.priors = <<>> THEN Len(f1.pnames) ELSE Len(f1.priors)) < s.K
    THEN Res(FALSE, f1, NoRecord)
    ELSE IF samples > 0 /\ s.K # f1.numparams
    THEN Res(FALSE, [f1 EXCEPT !.mcmccoeffs = <<samples, f1.numparams>>], NoRecord)
    ELSE Stored([f1 EXCEPT !.mcmccoeffs = <<Sliced(samples, burn), f1.numparams>>],
                Fitted(f1, "mcmc", s, f1.numparams, Sliced(samples, burn)))

MCMCEstimated(u, samples, burn, startOk) ==
    IF ~u.ok THEN Res(FALSE, u.val, NoRecord)
    ELSE MCMCFitted(u.val, samples, burn, startOk,
                    fitfunc(u.val, u.val.arr.x, u.val.arr.y, u.val.arr.ux,
                            IF u.val.arr.uy_estimate = NoArr THEN u.val.arr.uy
                            ELSE u.val.arr.uy_estimate))

calc_MCMC(f, samples, bn, bd, startOk) ==
    MCMCEstimated(run_uyestimate(f), samples, BurninRows(samples, bn, bd), startOk)

\* CurveFit.calculate(**kwargs) -> [ok, val, out, calls]: out is the report,
\* calls the methods of the CurveFit in the order calculate called them.
\* acc = [ok, f, outs, calls] is the state of the call so far.
Method(name, f, samples, burnin, startOk) ==
    CASE name = "calc_LSQ" -> calc_LSQ(f)
      [] name = "calc_GUM" -> calc_GUM(f)
      [] name = "calc_MC" -> calc_MC(f, samples)
      [] OTHER -> calc_MCMC(f, samples, burnin[1], burnin[2], startOk)

Ran(acc, name, r) ==
    IF r.ok THEN [acc EXCEPT !.f = r.val, !.outs = Append(@, r.out),
                             !.calls = Append(@, name)]
    ELSE [acc EXCEPT !.ok = FALSE, !.f = r.val, !.calls = Append(@, name)]

Then(acc, name, enabled, samples, burnin, startOk) ==
    IF ~acc.ok \/ ~enabled THEN acc
    ELSE Ran(acc, name, Method(name, acc.f, samples, burnin, startOk))

\* the same methods with calc_GUM ahead of calc_LSQ
CalculateFrom_gumFirst(a0, kwargs, samples, startOk) ==
    Then(Then(Then(Then(a0, "calc_GUM", Get(kwargs, "gum", FALSE), samples, <<1, 5>>, startOk),
                   "calc_LSQ", Get(kwargs, "lsq", TRUE), samples, <<1, 5>>, startOk),
              "calc_MC", Get(kwargs, "mc", FALSE), samples, <<1, 5>>, startOk),
         "calc_MCMC", Get(kwargs, "mcmc", FALSE), samples,
         Get(kwargs, "burnin", <<1, 5>>), startOk)

CalculateFrom(a0, kwargs, samples, startOk) ==
    Then(Then(Then(Then(a0, "calc_LSQ", Get(kwargs, "lsq", TRUE), samples, <<1, 5>>, startOk),
                   "calc_GUM", Get(kwargs, "gum", FALSE), samples, <<1, 5>>, startOk),
              "calc_MC", Get(kwargs, "mc", FALSE), samples, <<1, 5>>, startOk),
         "calc_MCMC", Get(kwargs, "mcmc", FALSE), samples,
         Get(kwargs, "burnin", <<1, 5>>), startOk)

Calculated(a) ==
    IF a.ok
    THEN [ok |-> TRUE, val |-> [a.f EXCEPT !.out = Report(a.outs, a.f.xdates)],
          out |-> Report(a.outs, a.f.xdates), calls |-> a.calls]
    ELSE [ok |-> FALSE, val |-> a.f, out |-> NoReport, calls |-> a.calls]

\* the call after self.run_uyestimate()
Started(u) == [ok |-> u.ok, f |-> u.val, outs |-> <<>>, calls |-> <<"run_uyestimate">>]

fit_calculate(f, kwargs, startOk) ==
    Calculated(CalculateFrom(Started(run_uyestimate(f)), kwargs,
                             Get(kwargs, "samples", f.samples), startOk))

\* CurveFit.get_output
fit_get_output(f) == f.out

(***************************************************************************)
(* curvefit.py: CurveFitParam, one coefficient ('param' mode, pidx its      *)
(* index) or one predicted value ('pred' mode, pidx the x value) of a       *)
(* CurveFit.  Its records are made by out_uncert.create_output from the     *)
(* CurveFit's record; the values in them and the values read from them are  *)
(* symbolic: <<name, pidx>> is attribute name of the CurveFit's record      *)
(* taken at pidx, and Attr(rec, name, at) is the read of name at `at`.      *)
(***************************************************************************)
NoParam == [made |-> FALSE, pidx |-> 0, mode |-> None, outputs |-> <<>>,
            out |-> NoReport, sampledvalues |-> None]

\* CurveFitParam(ifunc, pidx, mode)
NewCurveFitParam(pidx, mode) == [NoParam EXCEPT !.made = TRUE, !.pidx = pidx, !.mode = mode]

\* create_output(method, mean=..., uncert=..., **properties)
Projected(method, rec, p) ==
    [method |-> method, of |-> rec.method, degf |-> rec.degf, nrows |-> rec.nrows,
     mean |-> IF p.mode = "param" THEN <<"mean", p.pidx>> ELSE <<"y", p.pidx>>,
     uncert |-> IF p.mode = "param" THEN <<"uncert", p.pidx>> ELSE <<"u_pred", p.pidx>>]

\* the attributes of a record: mean, uncert, degf and the properties the
\* CurveFit's method passed on (curvefit.py:300-316)
RecordAttrs == {"mean", "uncert", "degf", "y", "u_conf", "u_pred"}

\* rec.name[at] or rec.name(at)
Attr(rec, name, at) == [of |-> rec.method, attr |-> name, at |-> at, degf |-> rec.degf]

\* CurveFitParam.calc_GUM / calc_MC / calc_MCMC / calc_LSQ
\*   -> [ok, f, p, out]: the CurveFit and the CurveFitParam afterwards, and
\*      the record returned
\* r is what the CurveFit's method returned
ParamProject(p, key, r) ==
    IF ~r.ok THEN [ok |-> FALSE, f |-> r.val, p |-> p, out |-> NoRecord]
    ELSE IF p.mode = "param" /\ p.pidx >= r.out.ncoef
    THEN [ok |-> FALSE, f |-> r.val, p |-> p, out |-> NoRecord]
    ELSE IF p.mode \notin {"param", "pred"}
    THEN [ok |-> key \in DOMAIN p.outputs, f |-> r.val, p |-> p,
          out |-> IF key \in DOMAIN p.outputs THEN p.outputs[key] ELSE NoRecord]
    ELSE [ok |-> TRUE, f |-> r.val,
          p |-> [p EXCEPT !.outputs = Put(@, key, Projected(key, r.out, p))],
          out |-> Projected(key, r.out, p)]

param_calc_GUM(p, f) == ParamProject(p, "gum", calc_GUM(f))
param_calc_MC(p, f, samples) == ParamProject(p, "mc", calc_MC(f, samples))
param_calc_MCMC(p, f, samples, startOk) ==
    ParamProject(p, "mcmc", calc_MCMC(f, samples, 1, 5, startOk))
param_calc_LSQ(p, f) == ParamProject(p, "lsq", calc_LSQ(f))

\* CurveFitParam.calculate(**kwargs) -> [ok, f, p, out]
\* acc = [ok, f, p, outs] is the state of the call so far; key is the record
\* stored by the method, listed the record appended to outs
ParamMethod(p, f, key, samples, startOk) ==
    CASE key = "gum" -> param_calc_GUM(p, f)
      [] key = "mc" -> param_calc_MC(p, f, samples)
      [] key = "mcmc" -> param_calc_MCMC(p, f, samples, startOk)
      [] OTHER -> param_calc_LSQ(p, f)

\* self.outputs[key] = r; outs.append(self.outputs[listed])
ParamRan(acc, key, listed, r) ==
    IF ~r.ok THEN [acc EXCEPT !.ok = FALSE, !.f = r.f, !.p = r.p]
    ELSE IF listed \notin DOMAIN r.p.outputs
    THEN [acc EXCEPT !.ok = FALSE, !.f = r.f, !.p = r.p]
    ELSE [acc EXCEPT !.f = r.f, !.p = r.p, !.outs = Append(@, r.p.outputs[listed])]

ParamThen(acc, key, listed, enabled, samples, startOk) ==
    IF ~acc.ok \/ ~enabled THEN acc
    ELSE ParamRan(acc, key, listed, ParamMethod(acc.p, acc.f, key, samples, startOk))

\* the report FuncOutput(outs, self)
ParamCalculated(a) ==
    IF a.ok
    THEN [ok |-> TRUE, f |-> a.f,
          p |-> [a.p EXCEPT !.out = [report |-> "FuncOutput", outputs |-> a.outs,
                                     xdates |-> FALSE]],
          out |-> [report |-> "FuncOutput", outputs |-> a.outs, xdates |-> FALSE]]
    ELSE [ok |-> FALSE, f |-> a.f, p |-> a.p, out |-> NoReport]

\* the methods in the order of the code: gum, mc, mcmc, lsq; with mcmc the
\* record appended is self.outputs['mc']
param_calculate_listed(p, f, kwargs, startOk, samples, listedForMcmc) ==
    ParamCalculated(
        ParamThen(ParamThen(ParamThen(ParamThen(
            [ok |-> TRUE, f |-> f, p |-> p, outs |-> <<>>],
            "gum", "gum", Get(kwargs, "gum", TRUE), samples, startOk),
            "mc", "mc", Get(kwargs, "mc", TRUE), samples, startOk),
            "mcmc", listedForMcmc, Get(kwargs, "mcmc", FALSE), samples, startOk),
            "lsq", "lsq", Get(kwargs, "lsq", TRUE), samples, startOk))

param_calculate(p, f, kwargs, startOk) ==
    param_calculate_listed(p, f, kwargs, startOk, Get(kwargs, "samples", 5000), "mc")

\* CurveFitParam.clear
param_clear(p) == [p EXCEPT !.sampledvalues = None, !.outputs = <<>>]

\* the first cached record in the order lsq, mc, gum, or None
FirstCached(p) ==
    IF "lsq" \in DOMAIN p.outputs THEN "lsq"
    ELSE IF "mc" \in DOMAIN p.outputs THEN "mc"
    ELSE IF "gum" \in DOMAIN p.outputs THEN "gum"
    ELSE None

\* the body shared by stdunc, mean and degf: read attribute `cached` of the
\* first cached record, or call self.calc_LSQ() and read attribute
\* `fallback` of the lsq record -> [ok, f, p, val]; reading an attribute the
\* record does not have raises AttributeError
Lookup(p, f, k, cached, fallback, at, lsq) ==
    IF k # None
    THEN [ok |-> TRUE, f |-> f, p |-> p, val |-> Attr(p.outputs[k], cached, at)]
    ELSE IF ~lsq.ok \/ fallback \notin RecordAttrs
    THEN [ok |-> FALSE, f |-> lsq.f, p |-> lsq.p, val |-> NoRecord]
    ELSE [ok |-> TRUE, f |-> lsq.f, p |-> lsq.p,
          val |-> Attr(lsq.p.outputs["lsq"], fallback, at)]

\* CurveFitParam.stdunc: any other mode reaches a bare `raise`
param_stdunc(p, f) ==
    IF p.mode = "param"
    THEN Lookup(p, f, FirstCached(p), "uncert", "uncert", 0, param_calc_LSQ(p, f))
    ELSE IF p.mode = "pred"
    THEN Lookup(p, f, FirstCached(p), "u_pred", "u_predy", p.pidx, param_calc_LSQ(p, f))
    ELSE [ok |-> FALSE, f |-> f, p |-> p, val |-> NoRecord]

\* CurveFitParam.mean: any other mode returns None
param_mean(p, f) ==
    IF p.mode = "param"
    THEN Lookup(p, f, FirstCached(p), "mean", "mean", 0, param_calc_LSQ(p, f))
    ELSE IF p.mode = "pred"
    THEN Lookup(p, f, FirstCached(p), "y", "y", p.pidx, param_calc_LSQ(p, f))
    ELSE [ok |-> TRUE, f |-> f, p |-> p, val |-> NoRecord]

\* CurveFitParam.degf
param_degf(p, f) ==
    Lookup(p, f, FirstCached(p), "degf", "degf", 0, param_calc_LSQ(p, f))

\* CurveFit.clear
clear(f) == [f EXCEPT !.arr.nsamples = 0, !.outputs = <<>>]

\* CurveFit.get_config: the dictionary, as a function over the keys present
fit_get_config(f) ==
    LET keys == {"mode", "curve", "name", "desc", "odr", "xname", "yname", "xdates",
                 "abssigma", "arrx", "arry"}
                \cup (IF f.fitname = "poly" THEN {"order"} ELSE {})
                \cup (IF f.p0 # NoArr THEN {"p0"} ELSE {})
                \cup (IF f.bounds # NoArr THEN {"bound0", "bound1"} ELSE {})
                \cup (IF has_ux(f.arr) THEN {"arrux"} ELSE {})
                \cup (IF has_uy(f.arr) THEN {"arruy"} ELSE {})
        d == [k \in keys |->
                CASE k = "mode" -> "curvefit"
                  [] k = "curve" -> f.fitname
                  [] k = "name" -> f.name
                  [] k = "desc" -> f.desc
                  [] k = "odr" -> f.odr
                  [] k = "xname" -> f.xname
                  [] k = "yname" -> f.yname
                  [] k = "xdates" -> f.xdates
                  [] k = "abssigma" -> f.absolute_sigma
                  [] k = "order" -> f.polyorder
                  [] k = "p0" -> f.p0
                  [] k = "bound0" -> [i \in 1..Len(f.bounds) |-> f.bounds[i][1]]
                  [] k = "bound1" -> [i \in 1..Len(f.bounds) |-> f.bounds[i][2]]
                  [] k = "arrx" -> f.arr.x
                  [] k = "arry" -> f.arr.y
                  [] k = "arrux" -> f.arr.ux
                  [] OTHER -> f.arr.uy]
    IN  IF f.fitname = "callable" THEN [ok |-> FALSE, val |-> <<>>]
        ELSE [ok |-> TRUE, val |-> d]

\* CurveFit.from_config: [ok, val] like set_fitfunc
fit_from_config(config) ==
    LET fitn == Get(config, "curve", None)     \* config['curve'] is a KeyError if absent
        order == Get(config, "order", 2)
        name == Get(config, "name", None)
        desc == Get(config, "desc", "")
        p0 == Get(config, "p0", NoArr)
        odr == Get(config, "odr", None)
        seed == Get(config, "seed", None)
        xdates == Get(config, "xdates", FALSE)
        absolute_sigma == Get(config, "abssigma", TRUE)
        x == Get(config, "arrx", NoArr)
        y == Get(config, "arry", NoArr)
        ux == Get(config, "arrux", Broadcast(0, Len(x)))
        uy == Get(config, "arruy", Broadcast(0, Len(x)))
        arr == Array(x, y, ux, uy)
        newfit == NewCurveFit(arr, fitn, name, desc, order, p0, None, NoArr, odr, seed,
                              xdates, absolute_sigma)
    IN  IF "curve" \notin DOMAIN config THEN [ok |-> FALSE, val |-> NoFit]
        ELSE IF ~newfit.ok THEN newfit
        ELSE [ok |-> TRUE, val |-> [newfit.val EXCEPT !.xname = Get(config, "xname", "x"),
                                                      !.yname = Get(config, "yname", "y")]]

(***************************************************************************)
(* The CurveFit machine: one CurveFit object (fit), the calls made on it,   *)
(* and the object rebuilt from its configuration (fit2).                    *)
(***************************************************************************)
MaxFitSteps == 3
MaxPoints == 4

FuncChoices == NamedFuncs \cup {"poly", ExprText, "2*y", "callable"}
OrderChoices(func) == IF func = "poly" THEN 0..13 \cup {NoOrder} ELSE {NoOrder}
P0Choices == {NoArr, Ones(2)}
BoundChoices == {NoArr, <<<<0, 1>>, <<0, 1>>>>}
OdrChoices == {None, "True"}
SampleChoices == {0, 2}
ArrChoices ==
    {Array([i \in 1..n |-> i], [i \in 1..n |-> 2 * i + 1], Broadcast(ux, n),
           Broadcast(uy, n)) : n \in {MaxPoints}, ux \in {0, 1}, uy \in {0, 1}}

FitIdle == UNCHANGED <<risk, prev, mc, param, load>>

NoArgs == args' = Plain

FitCallWith(name, a, res) ==
    /\ steps < MaxFitSteps
    /\ fit.made
    /\ fit' = res.val
    /\ op' = name
    /\ args' = a
    /\ ret' = [ok |-> res.ok, out |-> res.out]
    /\ steps' = steps + 1
    /\ UNCHANGED fit2
    /\ FitIdle

FitCall(name, res) == FitCallWith(name, Plain, res)

Construct ==
    /\ steps < MaxFitSteps
    /\ ~fit.made
    /\ \E arr \in ArrChoices, func \in FuncChoices, p0 \in P0Choices,
          bounds \in BoundChoices, odr \in OdrChoices :
          \E polyorder \in OrderChoices(func) :
            LET r == NewCurveFit(arr, func, "curvefit", "", polyorder, p0, None,
                                 bounds, odr, None, FALSE, TRUE)
            IN  /\ fit' = [r.val EXCEPT !.made = r.ok]
                /\ ret' = [ok |-> r.ok, out |-> NoRecord]
    /\ op' = "CurveFit"
    /\ NoArgs
    /\ steps' = steps + 1
    /\ UNCHANGED fit2
    /\ FitIdle

SetFitfunc ==
    \E func \in {"line", "poly", "2*y"}, polyorder \in {1, 2}, bounds \in BoundChoices :
        LET r == set_fitfunc(fit, func, polyorder, None, bounds, None, NoArr)
        IN  FitCall("set_fitfunc", Res(r.ok, r.val, NoRecord))

CalcLSQ == FitCall("calc_LSQ", calc_LSQ(fit))
CalcMC == \E samples \in SampleChoices : FitCall("calc_MC", calc_MC(fit, samples))
CalcGUM == FitCall("calc_GUM", calc_GUM(fit))
CalcMCMC ==
    \E samples \in SampleChoices, startOk \in BOOLEAN :
        FitCall("calc_MCMC", calc_MCMC(fit, samples, 1, 5, startOk))
Clear == FitCall("clear", Res(TRUE, clear(fit), NoRecord))

\* fit2 = CurveFit.from_config(fit.get_config())
SaveLoad ==
    /\ steps < MaxFitSteps
    /\ fit.made
    /\ LET c == fit_get_config(fit)
           r == IF c.ok THEN fit_from_config(c.val) ELSE [ok |-> FALSE, val |-> NoFit]
       IN  /\ fit2' = [r.val EXCEPT !.made = r.ok]
           /\ ret' = [ok |-> r.ok, out |-> NoRecord]
    /\ op' = "from_config"
    /\ NoArgs
    /\ steps' = steps + 1
    /\ UNCHANGED fit
    /\ FitIdle

InitFit ==
    /\ risk = NewRisk("risk") /\ prev = NewRisk("risk")
    /\ op = "init" /\ ret = [ok |-> TRUE, out |-> NoRecord] /\ steps = 0
    /\ args = Plain
    /\ mc = McIdle /\ load = None
    /\ fit = NoFit /\ fit2 = NoFit /\ param = None

NextFit ==
    \/ Construct \/ SetFitfunc \/ CalcLSQ \/ CalcMC \/ CalcGUM \/ CalcMCMC
    \/ Clear \/ SaveLoad

SpecFit == InitFit /\ [][NextFit]_vars

\* the CurveFit is as its last set_fitfunc left it on success: applying
\* set_fitfunc to its own settings changes nothing
Configured(f) ==
    LET r == set_fitfunc(f, f.fitname, f.polyorder, f.fitfunc.method, f.bounds, f.odr,
                         f.p0)
    IN  f.made /\ r.ok /\ r.val = f

\* C3: constructing a CurveFit with func = 'poly' (and no bounds) raises for
\* every order outside 1..12, and for every order k in 1..12 succeeds with
\* numparams = len(pnames) = k + 1.
C3_PolyOrder ==
    (op = "CurveFit" /\ fit.fitname = "poly" /\ fit.bounds = NoArr) =>
        IF fit.polyorder \in 1..12
        THEN ret.ok /\ fit.numparams = Len(fit.pnames)
                    /\ fit.numparams = fit.polyorder + 1
        ELSE ~ret.ok

\* C4: every successful calc_LSQ, calc_MC, calc_GUM or calc_MCMC produces a
\* record with degf = (number of points) - (number of fitted coefficients),
\* and that number of coefficients is len(pnames) = numparams.
C4_Degf ==
    (op \in {"calc_LSQ", "calc_MC", "calc_GUM", "calc_MCMC"} /\ ret.ok
        /\ Configured(fit)) =>
        /\ ret.out.degf = NPoints(fit) - ret.out.ncoef
        /\ ret.out.ncoef = Len(fit.pnames)
        /\ Len(fit.pnames) = fit.numparams

\* C8: for a CurveFit whose function is not a callable,
\* from_config(get_config()) succeeds with the same fitname and data arrays,
\* and calc_LSQ on the reloaded object makes the same solve (hence yields the
\* same coefficients) as on the original.
C8_FitConfigRoundTrip ==
    (op = "from_config" /\ fit.fitname # "callable" /\ Configured(fit)) =>
        /\ ret.ok
        /\ fit2.fitname = fit.fitname
        /\ fit2.arr.x = fit.arr.x /\ fit2.arr.y = fit.arr.y
        /\ (has_ux(fit.arr) => fit2.arr.ux = fit.arr.ux)
        /\ (has_uy(fit.arr) => fit2.arr.uy = fit.arr.uy)
        /\ (calc_LSQ(fit).ok =>
               /\ calc_LSQ(fit2).ok
               /\ calc_LSQ(fit2).out.coeffs = calc_LSQ(fit).out.coeffs)

\* C29: from_config restores every setting get_config writes (curve, name,
\* desc, odr, xname, yname, xdates, abssigma, order, p0, bound0/bound1 and
\* the arrays): get_config of the rebuilt CurveFit equals the original's.
C29_ConfigRestored ==
    (op = "from_config" /\ fit.fitname # "callable" /\ Configured(fit)) =>
        /\ ret.ok
        /\ fit_get_config(fit2) = fit_get_config(fit)

(***************************************************************************)
(* CurveFit.calculate and get_output: the machine starts with a CurveFit   *)
(* constructed on one of a few arrays and fit functions                    *)
(***************************************************************************)
MaxCalcSteps == 3

Flags == {"lsq", "gum", "mc", "mcmc"}
\* every combination of the four flags given explicitly, no keyword at all,
\* single flags, and calls that give samples and burnin
CalcKwargs ==
    {[k \in Flags |-> k \in on] : on \in SUBSET Flags}
    \cup {[k \in K |-> TRUE] : K \in {{}, {"gum"}, {"mc"}, {"mcmc"}}}
    \cup {[k \in {"mc", "samples"} |-> IF k = "mc" THEN TRUE ELSE 2],
          [k \in {"mcmc", "samples", "burnin"} |->
              IF k = "mcmc" THEN TRUE ELSE IF k = "samples" THEN 4 ELSE <<1, 2>>]}

CalcFits ==
    {NewCurveFit(arr, func, "curvefit", "", IF func = "poly" THEN 1 ELSE NoOrder,
                 NoArr, None, NoArr, None, None, FALSE, TRUE).val :
        arr \in ArrChoices, func \in {"line", "decay", "poly"}}

CalcIdle == UNCHANGED <<risk, prev, mc, fit2, param, load>>

FitCalculate ==
    /\ steps < MaxCalcSteps
    /\ \E kwargs \in CalcKwargs, startOk \in BOOLEAN :
          LET r == fit_calculate(fit, kwargs, startOk)
          IN  /\ fit' = r.val
              /\ ret' = [ok |-> r.ok, out |-> r.out, calls |-> r.calls]
              /\ args' = [kwargs |-> kwargs]
    /\ op' = "calculate"
    /\ steps' = steps + 1
    /\ CalcIdle

FitGetOutput ==
    /\ op' = "get_output"
    /\ ret' = [ok |-> TRUE, out |-> fit_get_output(fit), calls |-> <<>>]
    /\ args' = Plain
    /\ UNCHANGED <<fit, steps>>
    /\ CalcIdle

FitClear ==
    /\ steps < MaxCalcSteps
    /\ fit' = clear(fit)
    /\ op' = "clear"
    /\ ret' = [ok |-> TRUE, out |-> NoReport, calls |-> <<>>]
    /\ args' = Plain
    /\ steps' = steps + 1
    /\ CalcIdle

InitCalc ==
    /\ risk = NewRisk("risk") /\ prev = NewRisk("risk")
    /\ op = "init" /\ ret = [ok |-> TRUE, out |-> NoReport, calls |-> <<>>]
    /\ steps = 0 /\ args = Plain
    /\ mc = McIdle /\ load = None /\ fit2 = NoFit /\ param = NoParam
    /\ fit \in CalcFits

NextCalc == FitCalculate \/ FitGetOutput \/ FitClear

SpecCalc == InitCalc /\ [][NextCalc]_vars

\* the methods calculate(**kwargs) runs, in the order lsq, gum, mc, mcmc
Enabled4(kwargs) ==
    SelectSeq(<<"lsq", "gum", "mc", "mcmc">>,
              LAMBDA k : Get(kwargs, k, k = "lsq"))

\* C14: CurveFit.calculate(**options) calls run_uyestimate before any
\* method, then runs only the enabled methods (lsq by default; gum, mc, mcmc
\* not by default; samples defaulting to 5000, burnin to 0.2), and the
\* report lists the produced records in the order lsq, gum, mc, mcmc.
C14_CalculateOrder ==
    (op = "calculate") =>
        /\ ret.calls # <<>> /\ ret.calls[1] = "run_uyestimate"
        /\ \A i \in 2..Len(ret.calls) :
              ret.calls[i] = "calc_" \o (CASE Enabled4(args.kwargs)[i - 1] = "lsq" -> "LSQ"
                                           [] Enabled4(args.kwargs)[i - 1] = "gum" -> "GUM"
                                           [] Enabled4(args.kwargs)[i - 1] = "mc" -> "MC"
                                           [] OTHER -> "MCMC")
        /\ ret.ok =>
              /\ Len(ret.calls) = 1 + Len(Enabled4(args.kwargs))
              /\ Len(ret.out.outputs) = Len(Enabled4(args.kwargs))
              /\ \A i \in 1..Len(ret.out.outputs) :
                    /\ ret.out.outputs[i].method = Enabled4(args.kwargs)[i]
                    /\ ret.out.outputs[i] = fit.outputs[Enabled4(args.kwargs)[i]]
                    /\ (ret.out.outputs[i].method = "mc" =>
                            ret.out.outputs[i].nrows = Get(args.kwargs, "samples", 5000))
                    /\ (ret.out.outputs[i].method = "mcmc" =>
                            ret.out.outputs[i].nrows =
                                Get(args.kwargs, "samples", 5000)
                                - (Get(args.kwargs, "burnin", <<1, 5>>)[1]
                                   * Get(args.kwargs, "samples", 5000))
                                  \div Get(args.kwargs, "burnin", <<1, 5>>)[2])
              /\ fit.out = ret.out

\* C14 witness: calculate(gum, mc, mcmc and lsq all enabled) returned a
\* report of four records
C14_Witness ==
    /\ op = "calculate" /\ ret.ok
    /\ Len(ret.out.outputs) = 4
    /\ ret.calls = <<"run_uyestimate", "calc_LSQ", "calc_GUM", "calc_MC", "calc_MCMC">>

(***************************************************************************)
(* CurveFitParam: the machine starts with a CurveFitParam on a CurveFit    *)
(***************************************************************************)
MaxParamSteps == 3

ParamFits ==
    {NewCurveFit(Array(<<1, 2, 3, 4>>, <<3, 5, 7, 9>>, Broadcast(0, 4), Broadcast(uy, 4)),
                 "line", "curvefit", "", NoOrder, NoArr, None, NoArr, None, None,
                 FALSE, TRUE).val : uy \in {0, 1}}

ParamKeys == <<"gum", "mc", "mcmc", "lsq">>

\* the methods calculate(**kwargs) of a CurveFitParam runs
ParamEnabled(kwargs) == {k \in {"gum", "mc", "mcmc", "lsq"} : Get(kwargs, k, k # "mcmc")}

ParamIdle == UNCHANGED <<risk, prev, mc, fit2, load>>

ParamCall(name, a, r, out, val) ==
    /\ steps < MaxParamSteps
    /\ fit' = r.f
    /\ param' = r.p
    /\ op' = name
    /\ args' = a
    /\ ret' = [ok |-> r.ok, out |-> out, val |-> val]
    /\ steps' = steps + 1
    /\ ParamIdle

\* args.runs: every enabled method, called on its own, returns
ParamCalculate ==
    \E kwargs \in CalcKwargs, startOk \in BOOLEAN :
        ParamCall("calculate",
                  [kwargs |-> kwargs,
                   runs |-> \A k \in ParamEnabled(kwargs) :
                               ParamMethod(param, fit, k, Get(kwargs, "samples", 5000),
                                           startOk).ok],
                  param_calculate(param, fit, kwargs, startOk),
                  param_calculate(param, fit, kwargs, startOk).out, NoRecord)

ParamCalcOne ==
    \E i \in 1..4, startOk \in BOOLEAN :
        ParamCall("calc", [key |-> ParamKeys[i]],
                  ParamMethod(param, fit, ParamKeys[i], 2, startOk), NoReport,
                  ParamMethod(param, fit, ParamKeys[i], 2, startOk).out)

\* args.cached: the first cached record before the call
ParamStdunc ==
    ParamCall("stdunc", [cached |-> FirstCached(param)], param_stdunc(param, fit),
              NoReport, param_stdunc(param, fit).val)

ParamMean ==
    ParamCall("mean", [cached |-> FirstCached(param)], param_mean(param, fit),
              NoReport, param_mean(param, fit).val)

ParamDegf ==
    ParamCall("degf", [cached |-> FirstCached(param)], param_degf(param, fit),
              NoReport, param_degf(param, fit).val)

ParamClear ==
    ParamCall("clear", Plain, [ok |-> TRUE, f |-> clear(fit), p |-> param_clear(param)],
              NoReport, NoRecord)

\* CurveFitParam.sample: self.ifunc.sample(samples) resamples the array;
\* the values returned are column pidx of self.ifunc.samplecoeffs, an
\* attribute that calc_MC alone assigns (<<0, 0>> here: never assigned)
param_sample(p, f, n) ==
    IF f.samplecoeffs = <<0, 0>> \/ p.pidx >= f.samplecoeffs[2]
    THEN [ok |-> FALSE, f |-> sample(f, n), p |-> p, val |-> NoRecord]
    ELSE [ok |-> TRUE, f |-> sample(f, n),
          p |-> [p EXCEPT !.sampledvalues = <<f.samplecoeffs[1], p.pidx>>],
          val |-> [rows |-> f.samplecoeffs[1], pidx |-> p.pidx]]

\* args.rows: the rows of the CurveFit's samplecoeffs before the call
ParamSample ==
    \E n \in {2, 3} :
        ParamCall("sample", [n |-> n, rows |-> fit.samplecoeffs[1]],
                  param_sample(param, fit, n), NoReport, param_sample(param, fit, n).val)

InitParam ==
    /\ risk = NewRisk("risk") /\ prev = NewRisk("risk")
    /\ op = "init" /\ ret = [ok |-> TRUE, out |-> NoReport, val |-> NoRecord]
    /\ steps = 0 /\ args = Plain
    /\ mc = McIdle /\ load = None /\ fit2 = NoFit
    /\ fit \in ParamFits
    /\ \E pidx \in {0, 1, 2}, mode \in {"param", "pred"} :
          param = NewCurveFitParam(pidx, mode)

NextParam ==
    \/ ParamCalculate \/ ParamCalcOne \/ ParamStdunc \/ ParamMean \/ ParamDegf
    \/ ParamClear \/ ParamSample

SpecParam == InitParam /\ [][NextParam]_vars

\* C24: CurveFitParam.sample(n), on a parameter of the fit, resamples the
\* owning CurveFit with n samples and returns exactly n values of its own
\* parameter, in every state: before any calc_MC, and after a calc_MC run
\* with another number of samples.
C24_ParamSample ==
    (op = "sample" /\ param.pidx < fit.numparams) =>
        /\ fit.arr.nsamples = args.n
        /\ ret.ok
        /\ ret.val = [rows |-> args.n, pidx |-> param.pidx]
        /\ param.sampledvalues = <<args.n, param.pidx>>

\* C13: CurveFitParam.calculate(**options) runs GUM, MC and LSQ by default
\* and MCMC only when requested; whenever every enabled method can run, the
\* call returns and its report holds exactly one record per enabled method,
\* each being the record that method stored (with mcmc enabled, the 'mcmc'
\* record, whether or not mc is enabled).
C13_ParamCalculate ==
    (op = "calculate" /\ args.runs) =>
        /\ ret.ok
        /\ Len(ret.out.outputs) = Cardinality(ParamEnabled(args.kwargs))
        /\ \A k \in ParamEnabled(args.kwargs) :
              \E i \in 1..Len(ret.out.outputs) :
                  /\ ret.out.outputs[i].method = k
                  /\ ret.out.outputs[i] = param.outputs[k]

\* the attribute mean(), stdunc() and degf() read from a record
ReadOf(name, mode) ==
    CASE name = "mean" -> IF mode = "param" THEN "mean" ELSE "y"
      [] name = "stdunc" -> IF mode = "param" THEN "uncert" ELSE "u_pred"
      [] OTHER -> "degf"

ReadAt(name, p) == IF name = "degf" \/ p.mode = "param" THEN 0 ELSE p.pidx

\* C16: mean(), stdunc() and degf(), in 'param' and 'pred' mode, return the
\* value of the first cached record in the order lsq, mc, gum; with none of
\* them cached they compute LSQ, cache it under 'lsq' and return what they
\* return once the lsq record is cached (stdunc in 'pred' mode: u_pred of
\* the lsq record at x = pidx).
C16_ParamAccessors ==
    (op \in {"mean", "stdunc", "degf"}) =>
        /\ (args.cached # None =>
                /\ ret.ok
                /\ args.cached = FirstCached(param)
                /\ ret.val = Attr(param.outputs[args.cached], ReadOf(op, param.mode),
                                  ReadAt(op, param)))
        /\ ((args.cached = None /\ "lsq" \in DOMAIN param.outputs) =>
                /\ ret.ok
                /\ ret.val = Attr(param.outputs["lsq"], ReadOf(op, param.mode),
                                  ReadAt(op, param)))

(***************************************************************************)
(* The strategy closure self.fitfunc(x, y, ux, uy), called on a CurveFit   *)
(* whose fit function has been set                                         *)
(***************************************************************************)
SolveFuncs == {"line", "quad", "decay", "poly", ExprText}
UChoices == {NoArr, Broadcast(0, MaxPoints), Broadcast(1, MaxPoints),
             [i \in 1..MaxPoints |-> IF i = 1 THEN 0 ELSE 1]}

NoSolve == Solve(TRUE, None, NoFunc, NoArr, NoArr, NoArr, NoArr, NoArr, NoArr, TRUE, 0)

SolveFits ==
    {r.val : r \in {c \in {NewCurveFit(Array([i \in 1..MaxPoints |-> i],
                                             [i \in 1..MaxPoints |-> 2 * i + 1],
                                             Broadcast(0, MaxPoints),
                                             Broadcast(0, MaxPoints)),
                                       func, "curvefit", "",
                                       IF func = "poly" THEN 1 ELSE NoOrder, p0, None,
                                       bounds, odr, None, FALSE, abssigma) :
                               func \in SolveFuncs, p0 \in P0Choices,
                               bounds \in BoundChoices, odr \in OdrChoices,
                               abssigma \in BOOLEAN} : c.ok}}

SolveIdle == UNCHANGED <<risk, prev, steps, mc, fit2, param, load>>

\* self.fitfunc(self.arr.x, self.arr.y, ux, uy)
CallFitfunc ==
    /\ \E ux \in UChoices, uy \in UChoices :
          /\ ret' = [ok |-> fitfunc(fit, fit.arr.x, fit.arr.y, ux, uy).ok,
                     solve |-> fitfunc(fit, fit.arr.x, fit.arr.y, ux, uy)]
          /\ args' = [ux |-> ux, uy |-> uy]
    /\ op' = "fitfunc"
    /\ UNCHANGED fit
    /\ SolveIdle

\* set_fitfunc on the same CurveFit; a raise is not followed
SetFitfuncAgain ==
    /\ \E func \in SolveFuncs, odr \in OdrChoices, bounds \in BoundChoices :
          LET r == set_fitfunc(fit, func, IF func = "poly" THEN 1 ELSE 2, None, bounds,
                               odr, NoArr)
          IN  /\ r.ok
              /\ fit' = r.val
    /\ op' = "set_fitfunc"
    /\ ret' = [ok |-> TRUE, solve |-> NoSolve]
    /\ args' = Plain
    /\ SolveIdle

InitSolve ==
    /\ risk = NewRisk("risk") /\ prev = NewRisk("risk")
    /\ op = "init" /\ ret = [ok |-> TRUE, solve |-> NoSolve]
    /\ steps = 0 /\ args = Plain
    /\ mc = McIdle /\ load = None /\ fit2 = NoFit /\ param = NoParam
    /\ fit \in SolveFits

NextSolve == CallFitfunc \/ SetFitfuncAgain

SpecSolve == InitSolve /\ [][NextSolve]_vars

\* ux (uy) is absent or all zero
Absent(u) == u = NoArr \/ \A i \in 1..Len(u) : u[i] = 0

\* C26: when bounds are supplied and no orthogonal regression is in play (odr
\* not set, no x-uncertainty), the bounds reach the least-squares solve, for
\* every fit function, the built-in 'line' included.
C26_BoundsPassed ==
    (op = "fitfunc" /\ ret.ok /\ fit.bounds # NoArr /\ fit.odr # "True" /\ Absent(args.ux)) =>
        ret.solve.bounds = fit.bounds

MaxCacheSteps == 3

CacheKeys == {"lsq", "gum", "mc", "mcmc"}
UserPriors(n) == [i \in 1..n |-> [kind |-> "user", low |-> 0, high |-> 0]]

CacheIdle == UNCHANGED <<risk, prev, mc, param, load>>

CacheCall(name, a, r) ==
    /\ steps < MaxCacheSteps
    /\ fit2' = fit
    /\ fit' = r.val
    /\ op' = name
    /\ args' = a
    /\ ret' = [ok |-> r.ok]
    /\ steps' = steps + 1
    /\ CacheIdle

CacheSetFitfunc ==
    \E func \in {"line", "decay", "quad"}, bounds \in BoundChoices :
        CacheCall("set_fitfunc", Plain,
                  set_fitfunc(fit, func, 2, None, bounds, None, NoArr))

CacheSample == \E n \in {2, 3} : CacheCall("sample", Plain, Res(TRUE, sample(fit, n), NoRecord))

CacheSetPriors ==
    \E n \in {2, 3} : CacheCall("set_mcmc_priors", Plain, set_mcmc_priors(fit, UserPriors(n)))

CacheGetConfig == CacheCall("get_config", Plain, Res(fit_get_config(fit).ok, fit, NoRecord))

\* save_config writes yaml.dump([self.get_config()]) to the file
CacheSaveConfig == CacheCall("save_config", Plain, Res(fit_get_config(fit).ok, fit, NoRecord))

CacheCalc ==
    \E key \in CacheKeys, startOk \in BOOLEAN :
        CacheCall("calc", [key |-> key],
                  Method(CASE key = "lsq" -> "calc_LSQ" [] key = "gum" -> "calc_GUM"
                           [] key = "mc" -> "calc_MC" [] OTHER -> "calc_MCMC",
                         fit, 2, <<1, 5>>, startOk))

CacheCalculate ==
    \E kwargs \in {[k \in K |-> TRUE] : K \in {{}, {"gum"}, {"mc"}, {"mcmc"}}} :
        CacheCall("calculate", [kwargs |-> kwargs], fit_calculate(fit, kwargs, TRUE))

CacheClear == CacheCall("clear", Plain, Res(TRUE, clear(fit), NoRecord))

InitCache ==
    /\ risk = NewRisk("risk") /\ prev = NewRisk("risk")
    /\ op = "init" /\ ret = [ok |-> TRUE]
    /\ steps = 0 /\ args = Plain
    /\ mc = McIdle /\ load = None /\ param = NoParam
    /\ fit \in CalcFits
    /\ fit2 = fit

NextCache ==
    \/ CacheSetFitfunc \/ CacheSample \/ CacheSetPriors \/ CacheGetConfig
    \/ CacheSaveConfig \/ CacheCalc \/ CacheCalculate \/ CacheClear

SpecCache == InitCache /\ [][NextCache]_vars

\* the last operation is one that may create or replace the record under X
Writes(X) ==
    \/ op = "calc" /\ args.key = X
    \/ op = "calculate" /\ Get(args.kwargs, X, X = "lsq")

\* the record under X as a reader finds it: its fields, and what its
\* confidence band evaluates
Cached(f, X) == [rec |-> f.outputs[X], u_conf |-> u_conf(f, f.outputs[X])]

\* C27: after any sequence of set_fitfunc and set_mcmc_priors calls the
\* priors calc_MCMC uses belong to the current configuration: one prior per
\* current parameter, and right after a set_fitfunc without bounds every
\* prior is the default constant 1, none surviving from an earlier
\* configuration.
C27_CurrentPriors ==
    /\ ret.ok => Len(mcmc_priors(fit)) = Len(fit.pnames)
    /\ (op = "set_fitfunc" /\ ret.ok /\ fit.bounds = NoArr) =>
           \A i \in 1..Len(mcmc_priors(fit)) : mcmc_priors(fit)[i] = DefaultPrior

\* C23: the record cached under a method key X in {lsq, gum, mc, mcmc} is
\* created or replaced only by calc_X (directly or via calculate) and
\* removed only by clear(); set_fitfunc, sample, set_mcmc_priors,
\* get_config, save_config and calc_Y for Y # X neither add, change nor
\* remove it, and clear() leaves the cache empty.
C23_CacheFrame ==
    /\ (op = "clear" => fit.outputs = <<>>)
    /\ \A X \in CacheKeys :
          (op \notin {"init", "clear"} /\ ~Writes(X)) =>
              /\ (X \in DOMAIN fit.outputs) = (X \in DOMAIN fit2.outputs)
              /\ (X \in DOMAIN fit.outputs => Cached(fit, X) = Cached(fit2, X))

(***************************************************************************)
(* The polynomial forms: the resolved function against self.expr.  The     *)
(* coefficients and x are integers, so both sides are computed exactly.    *)
(***************************************************************************)
MaxPolyOrder == 4
MaxCoeff == 2

RECURSIVE Pow(_, _)
Pow(x, n) == IF n = 0 THEN 1 ELSE x * Pow(x, n - 1)

RECURSIVE SumTo(_, _)
SumTo(t, n) == IF n = 0 THEN 0 ELSE t[n] + SumTo(t, n - 1)

\* self.expr of a polynomial form, as its terms name * x**power
expr_terms(fitname, polyorder) ==
    CASE fitname = "line" -> <<[name |-> "a", power |-> 0], [name |-> "b", power |-> 1]>>
      [] fitname = "quad" \/ (fitname = "poly" /\ polyorder = 2) ->
            [i \in 1..3 |-> [name |-> Letter(i - 1), power |-> i - 1]]
      [] fitname = "cubic" \/ (fitname = "poly" /\ polyorder = 3) ->
            [i \in 1..4 |-> [name |-> Letter(i - 1), power |-> i - 1]]
      [] OTHER -> [i \in 1..(polyorder + 1) |-> [name |-> Letter(i - 1), power |-> i - 1]]

\* np.poly1d(p)(x): the coefficients are taken highest power first
poly1d(p, x) == SumTo([i \in 1..Len(p) |-> p[i] * Pow(x, Len(p) - i)], Len(p))

\* self.func(x, *c)
func_value(fn, x, c) ==
    CASE fn.id = "line" -> c[2] + c[1] * x
      [] fn.id = "quad" -> c[1] + c[2] * x + c[3] * x * x
      [] fn.id = "cubic" -> c[1] + c[2] * x + c[3] * x * x + c[4] * x * x * x
      [] OTHER -> poly1d(c, x)

\* the position of name among pnames, 0 when it is not one of them
Position(pnames, name) ==
    IF \E i \in 1..Len(pnames) : pnames[i] = name
    THEN CHOOSE i \in 1..Len(pnames) : pnames[i] = name
    ELSE 0

\* self.expr evaluated at x with the i-th name of pnames bound to c[i]; a
\* symbol of the expression that is no parameter name stays free
expr_value(terms, pnames, x, c) ==
    IF \E t \in 1..Len(terms) : Position(pnames, terms[t].name) = 0
    THEN [bound |-> FALSE, val |-> 0]
    ELSE [bound |-> TRUE,
          val |-> SumTo([t \in 1..Len(terms) |->
                            c[Position(pnames, terms[t].name)] * Pow(x, terms[t].power)],
                        Len(terms))]

PolyFits ==
    {r.val : r \in {c \in {NewCurveFit(Array(<<1, 2, 3, 4>>, <<3, 5, 7, 9>>, NoArr, NoArr),
                                       func, "curvefit", "", order, NoArr, None, NoArr,
                                       None, None, FALSE, TRUE) :
                              func \in {"line", "quad", "cubic", "poly"},
                              order \in 1..MaxPolyOrder} : c.ok}}

\* the number of coefficients self.func takes
Arity(f) == IF f.func.varargs THEN f.polyorder + 1 ELSE Len(f.func.params)

PolyEval ==
    /\ \E x \in -1..2, c \in [1..Arity(fit) -> 0..MaxCoeff] :
          /\ args' = [x |-> x, c |-> c]
          /\ ret' = [ok |-> TRUE, func |-> func_value(fit.func, x, c),
                     expr |-> expr_value(expr_terms(fit.fitname, fit.polyorder),
                                         fit.pnames, x, c)]
    /\ op' = "eval"
    /\ UNCHANGED <<risk, prev, steps, mc, fit, fit2, param, load>>

InitPoly ==
    /\ risk = NewRisk("risk") /\ prev = NewRisk("risk")
    /\ op = "init" /\ ret = [ok |-> TRUE]
    /\ steps = 0 /\ args = Plain
    /\ mc = McIdle /\ load = None /\ param = NoParam /\ fit2 = NoFit
    /\ fit \in PolyFits

NextPoly == PolyEval

SpecPoly == InitPoly /\ [][NextPoly]_vars

\* C25: for line, quad, cubic and poly of every order, the resolved function
\* f(x, c_1, ..., c_K) equals self.expr evaluated at x with the i-th name of
\* pnames bound to c_i.
C25_PolyExpr ==
    op = "eval" => ret.expr = [bound |-> TRUE, val |-> ret.func]

(***************************************************************************)
(* calc_MCMC step by step: the check of the priors at the initial          *)
(* coefficients, then `samples` sweeps of one proposal per coefficient,    *)
(* then the burn-in slice and the record.  Coefficients are small          *)
(* integers; with bounds (low, high) every coefficient has the prior       *)
(* set_fitfunc installs, and the initial fit lies in [low, high].          *)
(***************************************************************************)
MaxMcmcN == 2
MaxCoeffs == 2

BurninChoices == {<<0, 1>>, <<1, 5>>, <<1, 2>>, <<1, 1>>, <<3, 2>>}
PriorLow == 0
PriorHigh == 2

\* lambda x, a=blow, b=bhi: (x > a) & (x <= b), True as 1 and False as 0
bound_prior(x, a, b) == IF x > a /\ x <= b THEN 1 ELSE 0

\* priors[pidx](x): lambda x: 1 when no priors are set
prior(chain, x) == IF chain.bounded THEN bound_prior(x, PriorLow, PriorHigh) ELSE 1

\* accepts[pidx] += 2
accepted_twice(accepts, pidx) == [accepts EXCEPT ![pidx] = @ + 2]

\* accepts[pidx] += 1
accepted(accepts, pidx) == [accepts EXCEPT ![pidx] = @ + 1]

\* r >= np.random.uniform() for r = exp(...) * prior(pnew) / prior(p), where
\* exp(...) is positive: u is the uniform draw, "zero" (exactly 0.0), "low"
\* (at most exp(...)) or "high" (above it).  x / False is inf for x > 0 and
\* nan for x = 0.
Metropolis(priorNew, priorOld, u) ==
    IF priorOld = 1 THEN IF priorNew = 1 THEN u # "high" ELSE u = "zero"
    ELSE priorNew = 1

NoChain == [phase |-> "args", N |-> 0, burnin |-> <<0, 1>>, bounded |-> FALSE, p |-> <<>>,
            i |-> 0, pidx |-> 1, accepts |-> <<>>, rows |-> 0, evaluated |-> FALSE,
            cand |-> 0, priorval |-> 0, acceptance |-> <<>>, nrows |-> 0, nsig |-> 0]

McmcIdle == UNCHANGED <<risk, op, ret, args, prev, steps, fit, fit2, param, load>>

\* the first coefficient whose prior is <= 0 at the initial fit, or 0
FirstRejected(chain) ==
    IF \E k \in 1..Len(chain.p) : prior(chain, chain.p[k]) <= 0
    THEN CHOOSE k \in 1..Len(chain.p) :
            /\ prior(chain, chain.p[k]) <= 0
            /\ \A j \in 1..(k - 1) : prior(chain, chain.p[j]) > 0
    ELSE 0

\* for pidx in range(len(p)): if priors[pidx](p[pidx]) <= 0: raise ValueError
\* accepts = np.zeros(len(p)); self.mcmccoeffs = np.zeros((samples, numparams))
McmcStart ==
    /\ mc.phase = "args"
    /\ mc' = IF FirstRejected(mc) # 0
             THEN [mc EXCEPT !.phase = "raised", !.evaluated = TRUE,
                             !.cand = mc.p[FirstRejected(mc)], !.priorval = 0]
             ELSE [mc EXCEPT !.phase = "sweep", !.evaluated = TRUE,
                             !.cand = mc.p[Len(mc.p)], !.priorval = 1,
                             !.accepts = [k \in 1..Len(mc.p) |-> 0]]
    /\ McmcIdle

\* one proposal for coefficient pidx in sweep i
McmcPropose ==
    /\ mc.phase = "sweep" /\ mc.i < mc.N /\ mc.pidx <= Len(mc.p)
    /\ \E step \in {-1, 1}, u \in {"zero", "low", "high"} :
          LET pnew == mc.p[mc.pidx] + step
              take == Metropolis(prior(mc, pnew), prior(mc, mc.p[mc.pidx]), u)
          IN  mc' = [mc EXCEPT !.cand = pnew, !.priorval = prior(mc, pnew),
                               !.p = IF take THEN [@ EXCEPT ![mc.pidx] = pnew] ELSE @,
                               !.accepts = IF take THEN accepted(@, mc.pidx) ELSE @,
                               !.pidx = @ + 1]
    /\ McmcIdle

\* self.mcmccoeffs[i, :] = p; self.sig2trace[i] = sig2
McmcStore ==
    /\ mc.phase = "sweep" /\ mc.i < mc.N /\ mc.pidx > Len(mc.p)
    /\ mc' = [mc EXCEPT !.rows = @ + 1, !.i = @ + 1, !.pidx = 1]
    /\ McmcIdle

\* burnin = int(burnin * samples); the slices; 'acceptance': accepts/samples
McmcFinish ==
    /\ mc.phase = "sweep" /\ mc.i = mc.N
    /\ mc' = [mc EXCEPT
                !.phase = "done",
                !.nrows = Sliced(mc.rows, BurninRows(mc.N, mc.burnin[1], mc.burnin[2])),
                !.nsig = Sliced(mc.rows, BurninRows(mc.N, mc.burnin[1], mc.burnin[2])),
                !.acceptance = [k \in 1..Len(mc.p) |->
                                   IF mc.N = 0 THEN NaN ELSE Rat(mc.accepts[k], mc.N)]]
    /\ McmcIdle

InitMcmc ==
    /\ RiskInit /\ fit = None /\ fit2 = None /\ param = None /\ load = None
    /\ \E N \in 0..MaxMcmcN, burnin \in BurninChoices, bounded \in BOOLEAN,
          K \in 1..MaxCoeffs :
          \E p \in [1..K -> IF bounded THEN PriorLow..PriorHigh ELSE {1}] :
              mc = [NoChain EXCEPT !.N = N, !.burnin = burnin, !.bounded = bounded,
                                   !.p = p]

NextMcmc == McmcStart \/ McmcPropose \/ McmcStore \/ McmcFinish

SpecMcmc == InitMcmc /\ [][NextMcmc]_vars

\* int(f * N) for the burnin f of the chain
Burned == (mc.burnin[1] * mc.N) \div mc.burnin[2]

\* C17 as stated: after calc_MCMC(samples=N, burnin=f) completes, every
\* per-parameter acceptance fraction lies in [0, 1] and the retained chain
\* (mcmccoeffs and sig2trace) has exactly N - floor(f*N) rows.
C17_McmcAcceptance ==
    mc.phase = "done" =>
        /\ \A k \in 1..Len(mc.acceptance) :
              RLe(Zero, mc.acceptance[k]) /\ RLe(mc.acceptance[k], One)
        /\ mc.nrows = mc.N - Burned
        /\ mc.nsig = mc.N - Burned

\* C17 amended: the same for N >= 1 and 0 <= f <= 1.
C17_McmcAcceptanceAmended ==
    (mc.phase = "done" /\ mc.N >= 1 /\ mc.burnin[1] <= mc.burnin[2]) =>
        /\ \A k \in 1..Len(mc.acceptance) :
              RLe(Zero, mc.acceptance[k]) /\ RLe(mc.acceptance[k], One)
        /\ mc.nrows = mc.N - Burned
        /\ mc.nsig = mc.N - Burned

\* C17 witness: a chain of two sweeps with burnin 1/2 completed, one
\* coefficient accepted in every sweep and one in one sweep
C17_Witness ==
    /\ mc.phase = "done" /\ mc.N = 2 /\ mc.burnin = <<1, 2>>
    /\ mc.acceptance = <<One, <<1, 2>>>>
    /\ mc.nrows = 1

\* C18: with bounds (low, high) the prior of a coefficient returns 1 for
\* every candidate v with low <= v <= high, both endpoints included, and 0
\* for every v outside.
C18_BoundPrior ==
    (mc.bounded /\ mc.evaluated) =>
        mc.priorval = (IF PriorLow <= mc.cand /\ mc.cand <= PriorHigh THEN 1 ELSE 0)

(***************************************************************************)
(* from_configfile (curvefit.py:689-715, risk.py:938-964).  A file is what  *)
(* reading and parsing it give: doc.kind is                                 *)
(*   "binary"       bytes that are not text (read() raises                  *)
(*                  UnicodeDecodeError)                                     *)
(*   "scanner"      text the YAML scanner rejects, e.g. "a: b: c"           *)
(*   "parser"       text the YAML parser rejects, e.g. "[1, 2"              *)
(*   "composer"     an undefined alias, e.g. "*x"                           *)
(*   "constructor"  a tag safe_load refuses, e.g. "!!python/object:..."     *)
(*   "reader"       text with a character YAML does not allow               *)
(*   "empty"        a document that parses to None                          *)
(*   "mapping"      a document that parses to a dictionary                  *)
(*   "list"         a document that parses to a list holding doc.config     *)
(***************************************************************************)
InvalidKinds == {"scanner", "parser", "composer", "constructor", "reader"}
OtherKinds == {"binary", "empty", "mapping"}
Doc(kind, config) == [kind |-> kind, config |-> config]

\* fname.read() / open(fname).read(): the exception raised, or None
read(doc) == IF doc.kind = "binary" THEN "UnicodeDecodeError" ELSE None

\* yaml.safe_load(yml): the exception raised, or None
safe_load(doc) ==
    CASE doc.kind = "scanner" -> "ScannerError"
      [] doc.kind = "parser" -> "ParserError"
      [] doc.kind = "composer" -> "ComposerError"
      [] doc.kind = "constructor" -> "ConstructorError"
      [] doc.kind = "reader" -> "ReaderError"
      [] OTHER -> None

\* config[0]: the exception raised, or None
first(doc) ==
    CASE doc.kind = "empty" -> "TypeError"
      [] doc.kind = "mapping" -> "KeyError"
      [] OTHER -> None

\* what a from_configfile call did: the exception that left it (or None) and
\* what it returned ("None", an object of the class, or "nothing" if it raised)
Loaded(cls, doc, raised, returned) ==
    [cls |-> cls, kind |-> doc.kind, raised |-> raised, returned |-> returned]

\* the part of from_configfile both classes share, up to cls.from_config
configfile(cls, doc) ==
    IF read(doc) = "UnicodeDecodeError" THEN Loaded(cls, doc, None, "None")
    ELSE IF safe_load(doc) = "ScannerError" THEN Loaded(cls, doc, None, "None")
    ELSE IF safe_load(doc) # None THEN Loaded(cls, doc, safe_load(doc), "nothing")
    ELSE IF first(doc) # None THEN Loaded(cls, doc, first(doc), "nothing")
    ELSE Loaded(cls, doc, None, cls)

RiskConfigs ==
    {get_config([NewRisk("risk") EXCEPT !.procdist = p, !.speclimits = l]) :
        p \in DistChoices, l \in LimitChoices}
FitConfigs ==
    {fit_get_config(NewCurveFit(arr, func, "curvefit", "", 2, NoArr, None, NoArr, None,
                                None, FALSE, TRUE).val).val :
        arr \in ArrChoices, func \in {"line", "quad", "poly"}}
BadDocs == {Doc(k, <<>>) : k \in InvalidKinds \cup OtherKinds}

LoadIdle == UNCHANGED <<op, ret, args, prev, steps, mc, fit2, param>>

\* Risk.from_configfile(fname)
RiskFromConfigfile(doc) ==
    LET l == configfile("Risk", doc)
    IN  /\ load' = l
        /\ risk' = IF l.returned = "Risk" THEN from_config(doc.config) ELSE risk
        /\ UNCHANGED fit
        /\ LoadIdle

\* CurveFit.from_configfile(fname)
CurveFitFromConfigfile(doc) ==
    LET l == configfile("CurveFit", doc)
        r == fit_from_config(doc.config)
    IN  /\ load' = IF l.returned = "CurveFit" /\ ~r.ok
                   THEN Loaded("CurveFit", doc, "Error", "nothing") ELSE l
        /\ fit' = IF l.returned = "CurveFit" /\ r.ok THEN r.val ELSE fit
        /\ UNCHANGED risk
        /\ LoadIdle

LoadRisk ==
    \/ \E d \in BadDocs : RiskFromConfigfile(d)
    \/ \E c \in RiskConfigs : RiskFromConfigfile(Doc("list", c))
    \/ \E c \in FitConfigs : RiskFromConfigfile(Doc("list", c))

LoadCurveFit ==
    \/ \E d \in BadDocs : CurveFitFromConfigfile(d)
    \/ \E c \in RiskConfigs : CurveFitFromConfigfile(Doc("list", c))
    \/ \E c \in FitConfigs : CurveFitFromConfigfile(Doc("list", c))

InitLoad ==
    /\ RiskInit
    /\ mc = McIdle /\ fit = NoFit /\ fit2 = NoFit /\ param = None
    /\ load = Loaded(None, Doc(None, <<>>), None, "nothing")

NextLoad == LoadRisk \/ LoadCurveFit

SpecLoad == InitLoad /\ [][NextLoad]_vars

\* C9: CurveFit.from_configfile and Risk.from_configfile return None and
\* raise nothing whenever the content is not decodable as text or is not a
\* valid YAML document, whatever makes it invalid.
C9_LoadInvalidIsNone ==
    load.kind \in InvalidKinds \cup {"binary"} =>
        load.raised = None /\ load.returned = "None"

====
